---- MODULE Spec2Model ----
(***************************************************************************)
(* Career-advisor AI services: the job matcher                             *)
(* (career_recommendation/recommendation_engine.py), the skill-gap         *)
(* analyzer (skill_analysis/skill_analyzer.py), the chatbot                *)
(* (chatbot/career_chatbot.py) and the personality classifier              *)
(* (personality_analysis/personality_analyzer.py).                         *)
(*                                                                         *)
(* Numbers the code keeps as floats are kept here as exact rationals with  *)
(* a fixed denominator (Den for match scores, tenths for importance        *)
(* scores); strings are TLA+ strings, and lower()/upper() are computed     *)
(* character by character.                                                 *)
(***************************************************************************)
EXTENDS Integers, Sequences, FiniteSets, TLC

VARIABLES
    user_profile,          \* the profile of the request (matcher, skill analyzer)
    match_result,          \* what the job matcher returned last
    gap_result,            \* what the skill analyzer returned last
    conversation_history,  \* CareerChatbot.conversation_history
    user_context,          \* CareerChatbot.user_context
    chat_result,           \* what the chatbot returned last
    responses,             \* the answers handed to analyze_personality
    personality_result     \* what analyze_personality returned last

vars == <<user_profile, match_result, gap_result, conversation_history,
          user_context, chat_result, responses, personality_result>>

(***************************************************************************)
(* Bounds of the model.                                                    *)
(***************************************************************************)
\* a profile's skill list is the concatenation of at most this many SkillParts
MaxSkillParts == 1
\* cosine similarities are the values k/SimSteps, k in 0..SimSteps
SimSteps == 2
\* top_n ranges over -1..MaxTopN
MaxTopN == 6
\* the target_roles argument holds at most this many roles
MaxTargetRoles == 3
\* process_message is called at most this many times between two resets
MaxCalls == 2
\* a classified message has at most this many words
MaxMessageWords == 2
\* a response set answers question indices 0 .. MaxQuestions - 1
MaxQuestions == 3

\* largest gap size fed to the importance formula (levels run from 0 to 10)
MaxGapSize == 10
\* get_skill_learning_path is called with levels 0 .. MaxPathLevel
MaxPathLevel == 4

(***************************************************************************)
(* Strings: str.lower() and str.upper(), `in` on strings.                  *)
(***************************************************************************)
UpperLetters == "ABCDEFGHIJKLMNOPQRSTUVWXYZ"
LowerLetters == "abcdefghijklmnopqrstuvwxyz"

CharAt(s, i) == SubSeq(s, i, i)

\* the character c mapped from alphabet `from` to the same place of `to`
MapChar(c, from, to) ==
    IF \E i \in 1..Len(from) : CharAt(from, i) = c
    THEN CharAt(to, CHOOSE i \in 1..Len(from) : CharAt(from, i) = c)
    ELSE c

RECURSIVE MapString(_, _, _)
MapString(s, from, to) ==
    IF Len(s) = 0 THEN ""
    ELSE MapChar(CharAt(s, 1), from, to) \o MapString(SubSeq(s, 2, Len(s)), from, to)

\* pattern in text
Contains(text, pattern) ==
    \E i \in 1..(Len(text) - Len(pattern) + 1) :
        SubSeq(text, i, i + Len(pattern) - 1) = pattern

\* the elements of a list, as a set
Range(seq) == { seq[i] : i \in DOMAIN seq }

\* F applied to the value of x: x is evaluated once, however often F uses it
WithValue(x, F(_)) == CHOOSE result \in { F(value) : value \in {x} } : TRUE

\* Python's seq[:n]
Slice(seq, n) ==
    WithValue(seq, LAMBDA list :
        IF n >= 0
        THEN SubSeq(list, 1, IF n < Len(list) THEN n ELSE Len(list))
        ELSE SubSeq(list, 1, IF Len(list) + n > 0 THEN Len(list) + n ELSE 0))

\* sep.join(list)
RECURSIVE JoinWith(_, _)
JoinWith(list, sep) ==
    IF Len(list) = 0 THEN ""
    ELSE IF Len(list) = 1 THEN list[1]
    ELSE list[1] \o sep \o JoinWith(Tail(list), sep)

RECURSIVE Concat(_)
Concat(seqs) ==
    IF Len(seqs) = 0 THEN <<>> ELSE Head(seqs) \o Concat(Tail(seqs))

(***************************************************************************)
(* The job catalog (the fields the scoring reads).                         *)
(***************************************************************************)
job_database == <<
    [job_title |-> "Data Scientist",
     required_skills |-> <<"Python", "Machine Learning", "Statistics", "SQL",
                           "Data Visualization", "R">>,
     preferred_skills |-> <<"Deep Learning", "Big Data", "Cloud Computing", "Tableau">>,
     industries |-> <<"Technology", "Finance", "Healthcare", "Consulting">>,
     experience_levels |-> <<"mid", "senior">>,
     education_requirements |-> <<"bachelor", "master", "phd">>],
    [job_title |-> "Software Engineer",
     required_skills |-> <<"Programming", "Problem Solving", "System Design", "Git">>,
     preferred_skills |-> <<"JavaScript", "Python", "Java", "React", "Node.js">>,
     industries |-> <<"Technology", "Finance", "Healthcare", "Media">>,
     experience_levels |-> <<"entry", "mid", "senior">>,
     education_requirements |-> <<"bachelor", "master">>],
    [job_title |-> "Product Manager",
     required_skills |-> <<"Product Strategy", "Project Management", "Communication",
                           "Analytics">>,
     preferred_skills |-> <<"Agile", "User Research", "Data Analysis", "Leadership">>,
     industries |-> <<"Technology", "Retail", "Finance", "Healthcare">>,
     experience_levels |-> <<"mid", "senior">>,
     education_requirements |-> <<"bachelor", "master">>],
    [job_title |-> "UX Designer",
     required_skills |-> <<"Design Thinking", "Prototyping", "User Research", "Wireframing">>,
     preferred_skills |-> <<"Figma", "Adobe Creative Suite", "HTML/CSS", "Psychology">>,
     industries |-> <<"Technology", "Media", "Retail", "Healthcare">>,
     experience_levels |-> <<"entry", "mid", "senior">>,
     education_requirements |-> <<"bachelor", "master">>],
    [job_title |-> "Cybersecurity Analyst",
     required_skills |-> <<"Network Security", "Risk Assessment", "Incident Response",
                           "Security Tools">>,
     preferred_skills |-> <<"Ethical Hacking", "Compliance", "Forensics", "Cloud Security">>,
     industries |-> <<"Technology", "Finance", "Government", "Healthcare">>,
     experience_levels |-> <<"entry", "mid", "senior">>,
     education_requirements |-> <<"bachelor", "master">>],
    [job_title |-> "Digital Marketing Manager",
     required_skills |-> <<"Digital Marketing", "Analytics", "Content Strategy", "SEO/SEM">>,
     preferred_skills |-> <<"Social Media", "Email Marketing", "Google Analytics",
                            "A/B Testing">>,
     industries |-> <<"Marketing", "Retail", "Technology", "Media">>,
     experience_levels |-> <<"mid", "senior">>,
     education_requirements |-> <<"bachelor", "master">> ] >>

JobIndex == DOMAIN job_database

(***************************************************************************)
(* The profiles of the model.                                              *)
(***************************************************************************)
SkillParts == {
    <<"Python", "SQL">>,
    <<"PYTHON", "machine learning", "Statistics", "sql", "Data Visualization", "r",
      "Deep Learning", "big data", "Cloud Computing", "Tableau">>,
    <<"analytics", "User Research", "Communication">>,
    <<"Cobol", "python", "Python">>,
    <<"Programming", "Problem Solving", "System Design", "Git", "JavaScript">> }

RECURSIVE PartLists(_)
PartLists(n) ==
    IF n = 0 THEN { <<>> }
    ELSE PartLists(n - 1) \cup
         { l \o <<p>> : l \in PartLists(n - 1), p \in SkillParts }

SkillLists == { Concat(l) : l \in PartLists(MaxSkillParts) }

ExperienceLevels == { "entry", "MID", "" }
Educations == { "bachelor", "PhD", "" }
IndustryLists == { <<>>, <<"technology">>, <<"Government", "Marketing">> }
InterestLists == { <<>>, <<"">>, <<"data science", "Technology">> }

Profiles ==
    [skills : SkillLists, experience_level : ExperienceLevels,
     education : Educations, preferred_industries : IndustryLists,
     interests : InterestLists]

(***************************************************************************)
(* The tables and the inputs of the chatbot.                               *)
(***************************************************************************)
\* _load_response_templates: the openers of each intent, in dict order
response_templates ==
    << <<"career_change",
          << "Career transitions can be exciting opportunities for growth! Here are some key steps to consider:",
             "Changing careers is a significant decision. Let me help you think through this:",
             "Many successful professionals have made career pivots. Here's how to approach it strategically:" >> >>,
       <<"salary_negotiation",
          << "Salary negotiation is an important skill. Here are some proven strategies:",
             "When it comes to salary discussions, preparation is key:",
             "Let's talk about effective salary negotiation techniques:" >> >>,
       <<"skill_development",
          << "Continuous learning is crucial in today's job market. Here's my advice:",
             "Developing new skills can significantly boost your career prospects:",
             "Let me share some strategies for effective skill development:" >> >>,
       <<"job_search",
          << "Job searching can be challenging, but with the right approach, you can succeed:",
             "Here are some modern job search strategies that work:",
             "Let me help you optimize your job search process:" >> >>,
       <<"interview_prep",
          << "Interview preparation is crucial for success. Here's how to excel:",
             "Great interviews require preparation and practice. Let me guide you:",
             "Here are proven strategies to ace your next interview:" >> >>,
       <<"networking",
          << "Networking is one of the most powerful career tools. Here's how to do it effectively:",
             "Building professional relationships can transform your career:",
             "Let me share some networking strategies that actually work:" >> >>,
       <<"work_life_balance",
          << "Work-life balance is essential for long-term career success:",
             "Maintaining balance while advancing your career is definitely possible:",
             "Here are strategies to achieve better work-life integration:" >> >> >>

\* _load_career_knowledge: the knowledge lists, in dict order
career_knowledge ==
    << <<"career_change_steps",
          << "1. Assess your transferable skills and identify what you enjoy most",
             "2. Research target industries and roles thoroughly",
             "3. Network with professionals in your target field",
             "4. Consider taking courses or certifications to bridge skill gaps",
             "5. Start with informational interviews to learn more",
             "6. Update your resume to highlight relevant experience",
             "7. Consider transitional roles that bridge your current and target careers" >> >>,
       <<"salary_negotiation_tips",
          << "Research market rates for your role and location using sites like Glassdoor",
             "Document your achievements and quantify your impact",
             "Practice your negotiation conversation beforehand",
             "Consider the entire compensation package, not just base salary",
             "Time your negotiation appropriately (after job offer, during reviews)",
             "Be prepared to justify your request with concrete examples",
             "Remain professional and collaborative throughout the process" >> >>,
       <<"skill_development_strategies",
          << "Identify skills that are in high demand in your field",
             "Use online platforms like Coursera, Udemy, or LinkedIn Learning",
             "Practice new skills through personal projects or volunteering",
             "Seek mentorship from experts in areas you want to develop",
             "Join professional communities and attend industry events",
             "Set specific, measurable learning goals with deadlines",
             "Apply new skills immediately in your current role when possible" >> >>,
       <<"job_search_best_practices",
          << "Optimize your LinkedIn profile with relevant keywords",
             "Tailor your resume for each application",
             "Use multiple job search channels (company websites, recruiters, networking)",
             "Follow up professionally after applications and interviews",
             "Prepare for common interview questions and practice your responses",
             "Research companies thoroughly before applying",
             "Maintain a positive attitude and stay persistent" >> >>,
       <<"interview_preparation",
          << "Research the company, role, and interviewer beforehand",
             "Prepare specific examples using the STAR method (Situation, Task, Action, Result)",
             "Practice common behavioral and technical questions",
             "Prepare thoughtful questions to ask the interviewer",
             "Plan your outfit and route to the interview location",
             "Bring multiple copies of your resume and a notepad",
             "Follow up with a thank-you email within 24 hours" >> >>,
       <<"networking_strategies",
          << "Attend industry events, conferences, and meetups regularly",
             "Engage meaningfully on professional social media platforms",
             "Offer help and value to others before asking for favors",
             "Maintain relationships through regular, genuine communication",
             "Join professional associations in your field",
             "Participate in online communities and forums",
             "Consider informational interviews to expand your network" >> >> >>

\* _generate_general_response: the generic replies
general_responses ==
    << "I'm here to help with your career questions! I can assist with career planning, job search strategies, skill development, salary negotiation, and more. What specific area would you like to explore?",
       "That's an interesting question! I specialize in career guidance and can help with topics like career transitions, interview preparation, networking, and professional development. How can I assist you today?",
       "I'd be happy to help you with your career-related concerns. I have expertise in areas like job searching, skill building, career planning, and workplace success strategies. What would you like to know more about?" >>

\* _analyze_intent: the patterns of each intent, in dict order
intent_patterns ==
    << <<"career_change",
          << "career change", "switch career", "change job", "new career",
             "different field", "career transition", "pivot" >> >>,
       <<"salary_negotiation",
          << "salary", "negotiate", "pay raise", "compensation", "money",
             "wage", "income", "raise" >> >>,
       <<"skill_development",
          << "learn", "skill", "course", "training", "education",
             "improve", "develop", "certification" >> >>,
       <<"job_search",
          << "job search", "find job", "looking for", "apply", "hiring",
             "employment", "job hunting", "opportunities" >> >>,
       <<"interview_prep",
          << "interview", "preparation", "questions", "interview tips",
             "job interview", "behavioral questions" >> >>,
       <<"networking",
          << "network", "connections", "professional relationships",
             "meet people", "industry contacts", "linkedin" >> >>,
       <<"work_life_balance",
          << "work life balance", "stress", "burnout", "time management",
             "balance", "wellness", "mental health" >> >> >>

\* the messages sent to the chatbot
ChatMessages == { "I want a Career Change", "How can I learn new skills?", "hello there" }

\* an item of a list in a context map (user_context: Dict, its values untyped):
\* a string or a number
Str(text) == [type |-> "str", value |-> text]
Num(n) == [type |-> "int", value |-> n]

\* the user_context arguments of process_message (<<>>: none given, or {}): a
\* context whose skills are strings, and one whose skills are numbers
ChatContexts ==
    { <<>>,
      [experience_level |-> "entry",
       skills |-> <<Str("Python"), Str("SQL"), Str("Git"), Str("Excel")>>],
      [skills |-> <<Num(1), Num(2)>>] }

\* the messages classified: at most MaxMessageWords of these words, joined by blanks
MessageWords == { "Career", "change", "job", "search", "SALARY", "praise", "learn",
                  "Interview", "networking", "burnout", "hello" }

RECURSIVE WordLists(_)
WordLists(n) ==
    IF n = 0 THEN { <<>> }
    ELSE WordLists(n - 1) \cup { l \o <<w>> : l \in WordLists(n - 1), w \in MessageWords }

IntentMessages == { JoinWith(l, " ") : l \in WordLists(MaxMessageWords) }

(***************************************************************************)
(* The tables of the skill analyzer.                                       *)
(***************************************************************************)
\* the skills of _load_skill_database
SkillNames == { "Python", "Machine Learning", "JavaScript", "Project Management",
                "Data Analysis", "Cloud Computing", "Communication", "Cybersecurity" }

skill_database ==
    [name \in SkillNames |->
        CASE name = "Python" ->
                [category |-> "Programming", difficulty |-> 6, market_demand |-> 9,
                 avg_learning_time_weeks |-> 12,
                 related_skills |-> <<"Data Science", "Machine Learning", "Web Development">>,
                 job_roles |-> <<"Data Scientist", "Software Engineer", "Backend Developer">>]
          [] name = "Machine Learning" ->
                [category |-> "AI/Data Science", difficulty |-> 8, market_demand |-> 10,
                 avg_learning_time_weeks |-> 16,
                 related_skills |-> <<"Python", "Statistics", "Data Analysis">>,
                 job_roles |-> <<"Data Scientist", "ML Engineer", "AI Researcher">>]
          [] name = "JavaScript" ->
                [category |-> "Programming", difficulty |-> 5, market_demand |-> 9,
                 avg_learning_time_weeks |-> 10,
                 related_skills |-> <<"HTML", "CSS", "React", "Node.js">>,
                 job_roles |-> <<"Frontend Developer", "Full Stack Developer", "Web Developer">>]
          [] name = "Project Management" ->
                [category |-> "Management", difficulty |-> 6, market_demand |-> 8,
                 avg_learning_time_weeks |-> 8,
                 related_skills |-> <<"Leadership", "Communication", "Agile">>,
                 job_roles |-> <<"Project Manager", "Product Manager", "Scrum Master">>]
          [] name = "Data Analysis" ->
                [category |-> "Analytics", difficulty |-> 6, market_demand |-> 9,
                 avg_learning_time_weeks |-> 10,
                 related_skills |-> <<"SQL", "Excel", "Statistics", "Visualization">>,
                 job_roles |-> <<"Data Analyst", "Business Analyst", "Research Analyst">>]
          [] name = "Cloud Computing" ->
                [category |-> "Infrastructure", difficulty |-> 7, market_demand |-> 9,
                 avg_learning_time_weeks |-> 14,
                 related_skills |-> <<"AWS", "Azure", "DevOps", "Networking">>,
                 job_roles |-> <<"Cloud Engineer", "DevOps Engineer", "Solutions Architect">>]
          [] name = "Communication" ->
                [category |-> "Soft Skills", difficulty |-> 4, market_demand |-> 10,
                 avg_learning_time_weeks |-> 6,
                 related_skills |-> <<"Leadership", "Presentation", "Writing">>,
                 job_roles |-> <<"Manager", "Consultant", "Sales Representative">>]
          [] name = "Cybersecurity" ->
                [category |-> "Security", difficulty |-> 8, market_demand |-> 10,
                 avg_learning_time_weeks |-> 18,
                 related_skills |-> <<"Networking", "Risk Assessment", "Compliance">>,
                 job_roles |-> <<"Security Analyst", "Security Engineer", "CISO">>]]

learning_resources ==
    [name \in SkillNames |->
        CASE name = "Python" ->
                <<"Python.org Official Tutorial", "Codecademy Python Course", "Real Python",
                  "Python Crash Course Book", "Automate the Boring Stuff">>
          [] name = "Machine Learning" ->
                <<"Coursera ML Course (Andrew Ng)", "Fast.ai Practical Deep Learning",
                  "Kaggle Learn", "Scikit-learn Documentation",
                  "Hands-On Machine Learning Book">>
          [] name = "JavaScript" ->
                <<"MDN Web Docs", "freeCodeCamp", "JavaScript.info",
                  "Eloquent JavaScript Book", "You Don't Know JS Series">>
          [] name = "Project Management" ->
                <<"PMI Certification Courses", "Coursera Project Management",
                  "Agile Alliance Resources", "Scrum.org Training",
                  "LinkedIn Learning PM Courses">>
          [] name = "Data Analysis" ->
                <<"Kaggle Learn Data Analysis", "Coursera Data Analysis Specialization",
                  "Excel Training Resources", "Tableau Public Training",
                  "Google Analytics Academy">>
          [] name = "Cloud Computing" ->
                <<"AWS Training and Certification", "Microsoft Azure Learning",
                  "Google Cloud Training", "Cloud Guru Courses", "Linux Academy">>
          [] name = "Communication" ->
                <<"Toastmasters International", "Coursera Communication Courses",
                  "Dale Carnegie Training", "TED Talks on Communication",
                  "Harvard Business Review Articles">>
          [] name = "Cybersecurity" ->
                <<"Cybrary Free Courses", "SANS Training", "CompTIA Security+ Certification",
                  "Offensive Security Training", "NIST Cybersecurity Framework">>]

\* role_requirements.get(role, {}): the (skill, level) items in dict order
_get_required_skills_for_role(role) ==
    CASE role = "Data Scientist" ->
            << <<"Python", 8>>, <<"Machine Learning", 8>>, <<"Statistics", 7>>,
               <<"Data Analysis", 8>>, <<"Communication", 6>> >>
      [] role = "Software Engineer" ->
            << <<"Programming", 8>>, <<"JavaScript", 7>>, <<"Python", 6>>,
               <<"Problem Solving", 8>>, <<"Communication", 6>> >>
      [] role = "Project Manager" ->
            << <<"Project Management", 9>>, <<"Communication", 9>>, <<"Leadership", 8>>,
               <<"Agile", 7>>, <<"Risk Management", 6>> >>
      [] role = "Data Analyst" ->
            << <<"Data Analysis", 8>>, <<"SQL", 7>>, <<"Excel", 7>>,
               <<"Statistics", 6>>, <<"Communication", 7>> >>
      [] role = "Cybersecurity Analyst" ->
            << <<"Cybersecurity", 8>>, <<"Network Security", 7>>, <<"Risk Assessment", 7>>,
               <<"Incident Response", 6>>, <<"Compliance", 6>> >>
      [] OTHER -> <<>>

\* the interest keys and their roles, in dict order
role_mapping ==
    << <<"technology", <<"Software Engineer", "Data Scientist">> >>,
       <<"data", <<"Data Scientist", "Data Analyst">> >>,
       <<"management", <<"Project Manager", "Product Manager">> >>,
       <<"design", <<"UX Designer", "Product Designer">> >>,
       <<"security", <<"Cybersecurity Analyst", "Security Engineer">> >> >>

\* the profiles and the target_roles arguments of the skill analysis
GapSkillLists == {
    <<>>,
    <<"python", "Communication", "Statistics", "SQL">>,
    <<"JAVASCRIPT", "Project Management", "Python", "Data Analysis", "Cybersecurity">> }
GapExperienceLevels == { "entry", "senior", "executive", "MID" }
GapEducations == { "", "Master of Science", "PhD" }
GapInterestLists == { <<>>, <<"Big Data", "data technology">>, <<"Security management">> }

GapProfiles ==
    [skills : GapSkillLists, experience_level : GapExperienceLevels,
     education : GapEducations, preferred_industries : { <<>> },
     interests : GapInterestLists]

RolePool == { "Data Scientist", "Software Engineer", "Project Manager", "UX Designer" }

RECURSIVE RoleLists(_)
RoleLists(n) ==
    IF n = 0 THEN { <<>> }
    ELSE RoleLists(n - 1) \cup { l \o <<r>> : l \in RoleLists(n - 1), r \in RolePool }

RoleNames == { "Data Scientist", "Software Engineer", "Project Manager", "Data Analyst",
               "Cybersecurity Analyst" }

\* every string lower() or upper() is applied to
KnownStrings ==
    UNION { Range(p) : p \in SkillParts }
    \cup UNION { Range(job_database[j].required_skills)
                 \cup Range(job_database[j].preferred_skills)
                 \cup Range(job_database[j].industries) : j \in JobIndex }
    \cup ExperienceLevels \cup Educations
    \cup UNION { Range(l) : l \in IndustryLists }
    \cup UNION { Range(l) : l \in InterestLists }
    \cup UNION { { _get_required_skills_for_role(r)[k][1] :
                     k \in DOMAIN _get_required_skills_for_role(r) } : r \in RoleNames }
    \cup UNION { Range(l) : l \in GapSkillLists }
    \cup UNION { Range(l) : l \in GapInterestLists }
    \cup GapEducations
    \cup ChatMessages \cup IntentMessages

LowerOf == [s \in KnownStrings |-> MapString(s, UpperLetters, LowerLetters)]

\* str.lower()
lower(s) ==
    IF s \in KnownStrings THEN LowerOf[s] ELSE MapString(s, UpperLetters, LowerLetters)

\* str.upper()
upper(s) == MapString(s, LowerLetters, UpperLetters)

(***************************************************************************)
(* list.sort(key=..., reverse=True): a stable sort by descending key.      *)
(* Keys are tuples of integers, compared as Python compares tuples.        *)
(***************************************************************************)
RECURSIVE KeyLess(_, _)
KeyLess(a, b) ==
    IF Len(a) = 0 THEN Len(b) > 0
    ELSE IF Len(b) = 0 THEN FALSE
    ELSE IF Head(a) # Head(b) THEN Head(a) < Head(b)
    ELSE KeyLess(Tail(a), Tail(b))

\* InsertDescending with equal keys reversed: `entry` goes before its equals
RECURSIVE InsertDescendingTiesFirst(_, _)
InsertDescendingTiesFirst(sorted, entry) ==
    IF Len(sorted) = 0 THEN <<entry>>
    ELSE IF ~KeyLess(entry.key, Head(sorted).key) THEN <<entry>> \o sorted
    ELSE <<Head(sorted)>> \o InsertDescendingTiesFirst(Tail(sorted), entry)

\* `entry` put behind every entry of `sorted` whose key is not smaller
RECURSIVE InsertDescending(_, _)
InsertDescending(sorted, entry) ==
    IF Len(sorted) = 0 THEN <<entry>>
    ELSE IF KeyLess(Head(sorted).key, entry.key) THEN <<entry>> \o sorted
    ELSE <<Head(sorted)>> \o InsertDescending(Tail(sorted), entry)

\* entries are [key |-> tuple, item |-> value]; the items in sorted order
RECURSIVE SortEntriesDescending(_)
SortEntriesDescending(entries) ==
    IF Len(entries) = 0 THEN <<>>
    ELSE InsertDescending(SortEntriesDescending(SubSeq(entries, 1, Len(entries) - 1)),
                          entries[Len(entries)])

sort_reverse(entries) ==
    WithValue(SortEntriesDescending(entries), LAMBDA sorted :
        [i \in DOMAIN sorted |-> sorted[i].item])

(***************************************************************************)
(* CareerRecommendationEngine                                              *)
(***************************************************************************)
\* scores are multiples of 1/Den
Den == 6000 * SimSteps

Min(a, b) == WithValue(<<a, b>>, LAMBDA pair : IF pair[1] < pair[2] THEN pair[1] ELSE pair[2])

\* what cosine_similarity may return: sims[j] / SimSteps for job j
SimLevels == 0..SimSteps
SimVectors ==
    { [j \in JobIndex |-> IF j = k THEN a ELSE 0] : k \in JobIndex, a \in SimLevels }

\* the vectors a call can meet: cosine_similarity is only called on a
\* non-empty interest text
SimChoices(profile) ==
    IF JoinWith(profile.interests, " ") = ""
    THEN { [j \in JobIndex |-> 0] }
    ELSE SimVectors

\* round(x, 1) of x / Den, in tenths (a tie goes to the even tenth)
round1(x) ==
    WithValue(x, LAMBDA value :
        LET q == (value * 10) \div Den
            r == (value * 10) % Den
        IN  IF 2 * r < Den THEN q
            ELSE IF 2 * r > Den THEN q + 1
            ELSE IF q % 2 = 0 THEN q ELSE q + 1)

\* the terms of a match score, with the skill weight and the cap as parameters
MatchScoreWith(profile, job, sims, required_weight, preferred_weight, cap) ==
    LET user_skills == { lower(profile.skills[i]) : i \in DOMAIN profile.skills }
        required_skills == { lower(job.required_skills[i]) : i \in DOMAIN job.required_skills }
        preferred_skills == { lower(job.preferred_skills[i]) : i \in DOMAIN job.preferred_skills }
        required_match == (Cardinality(user_skills \cap required_skills) * Den)
                              \div Cardinality(required_skills)
        preferred_match == (Cardinality(user_skills \cap preferred_skills) * Den)
                              \div Cardinality(preferred_skills)
        skills_score ==
            ((required_match * required_weight + preferred_match * preferred_weight) * 4)
                \div 100
        score2 == IF lower(profile.experience_level) \in Range(job.experience_levels)
                  THEN skills_score + (20 * Den) \div 100 ELSE skills_score
        score3 == IF lower(profile.education) \in Range(job.education_requirements)
                  THEN score2 + (15 * Den) \div 100 ELSE score2
        user_industries == { lower(profile.preferred_industries[i]) :
                                i \in DOMAIN profile.preferred_industries }
        job_industries == { lower(job.industries[i]) : i \in DOMAIN job.industries }
        score4 == IF user_industries \cap job_industries # {}
                  THEN score3 + (15 * Den) \div 100 ELSE score3
        j == CHOOSE i \in JobIndex : job_database[i].job_title = job.job_title
        score5 == IF JoinWith(profile.interests, " ") # ""
                  THEN score4 + ((sims[j] * Den) \div SimSteps) \div 10 ELSE score4
    IN  IF cap THEN Min(score5 * 100, 100 * Den) ELSE score5 * 100

\* calculate_match_score with the skill term 10 times too heavy (its weight
\* 0.4 written as 4) and the cap at 100 left out
calculate_match_score_uncapped(profile, job, sims) ==
    MatchScoreWith(profile, job, sims, 70, 30, FALSE)

\* calculate_match_score with the weights of the required and the preferred
\* skills exchanged
calculate_match_score_swapped(profile, job, sims) ==
    MatchScoreWith(profile, job, sims, 3, 7, TRUE)

\* the score (a percentage) times Den
calculate_match_score(profile, job, sims) ==
    LET user_skills == { lower(profile.skills[i]) : i \in DOMAIN profile.skills }
        required_skills == { lower(job.required_skills[i]) : i \in DOMAIN job.required_skills }
        preferred_skills == { lower(job.preferred_skills[i]) : i \in DOMAIN job.preferred_skills }
        required_match ==
            IF required_skills # {}
            THEN (Cardinality(user_skills \cap required_skills) * Den)
                     \div Cardinality(required_skills)
            ELSE 0
        preferred_match ==
            IF preferred_skills # {}
            THEN (Cardinality(user_skills \cap preferred_skills) * Den)
                     \div Cardinality(preferred_skills)
            ELSE 0
        skills_score == ((required_match * 7 + preferred_match * 3) * 4) \div 100
        score1 == 0 + skills_score
        user_exp == lower(profile.experience_level)
        score2 == score1 + (IF user_exp \in Range(job.experience_levels)
                            THEN (20 * Den) \div 100 ELSE 0)
        user_edu == lower(profile.education)
        score3 == score2 + (IF user_edu \in Range(job.education_requirements)
                            THEN (15 * Den) \div 100 ELSE 0)
        user_industries == { lower(profile.preferred_industries[i]) :
                                i \in DOMAIN profile.preferred_industries }
        job_industries == { lower(job.industries[i]) : i \in DOMAIN job.industries }
        score4 == score3 + (IF user_industries \cap job_industries # {}
                            THEN (15 * Den) \div 100 ELSE 0)
        user_text == JoinWith(profile.interests, " ")
        job_index == CHOOSE i \in JobIndex :
                        /\ job_database[i].job_title = job.job_title
                        /\ \A k \in 1..(i - 1) : job_database[k].job_title # job.job_title
        similarity == (sims[job_index] * Den) \div SimSteps
        score5 == score4 + (IF user_text # "" THEN similarity \div 10 ELSE 0)
    IN  Min(score5 * 100, 100 * Den)

\* get_recommendations without the [:top_n]
get_recommendations_untruncated(profile, top_n, sims) ==
    sort_reverse([j \in JobIndex |->
        [key |-> <<round1(calculate_match_score(profile, job_database[j], sims))>>,
         item |-> [job_title |-> job_database[j].job_title,
                   match_percentage |->
                       round1(calculate_match_score(profile, job_database[j], sims)),
                   required_skills |-> job_database[j].required_skills]]])

get_recommendations(profile, top_n, sims) ==
    WithValue(
        [j \in JobIndex |->
            LET job == job_database[j]
                match_score == calculate_match_score(profile, job, sims)
            IN  [job_title |-> job.job_title,
                 match_percentage |-> round1(match_score),
                 required_skills |-> job.required_skills]],
        LAMBDA recommendations :
            LET sorted == sort_reverse([j \in JobIndex |->
                              [key |-> <<recommendations[j].match_percentage>>,
                               item |-> recommendations[j]]])
            IN  Slice(sorted, top_n))

NoMatchResult ==
    [op |-> "none", job |-> 0, sims |-> <<>>, score |-> 0, top_n |-> 0,
     recommendations |-> <<>>]

\* one call of calculate_match_score on a catalog job
CalculateMatchScore ==
    /\ match_result.op = "none"
    /\ \E j \in JobIndex, sims \in SimChoices(user_profile) :
         /\ \A i \in JobIndex : i # j => sims[i] = 0
         /\ match_result' =
                [op |-> "score", job |-> j, sims |-> sims,
                 score |-> calculate_match_score(user_profile, job_database[j], sims),
                 top_n |-> 0, recommendations |-> <<>>]
    /\ UNCHANGED <<user_profile, gap_result, conversation_history, user_context,
                   chat_result, responses, personality_result>>

\* one call of get_recommendations
GetRecommendations ==
    /\ match_result.op = "none"
    /\ \E top_n \in -1..MaxTopN, sims \in SimChoices(user_profile) :
         match_result' =
            [op |-> "recommend", job |-> 0, sims |-> sims, score |-> 0,
             top_n |-> top_n,
             recommendations |-> get_recommendations(user_profile, top_n, sims)]
    /\ UNCHANGED <<user_profile, gap_result, conversation_history, user_context,
                   chat_result, responses, personality_result>>

NoGapResult == [op |-> "none", target_roles |-> <<>>, roles |-> <<>>, gaps |-> <<>>]
\* the last call on the chatbot: its arguments, what it returned and, for a
\* reset, what the instance held when it was called
NoChatResult ==
    [op |-> "none", message |-> "", context |-> <<>>, intent |-> "", response |-> "",
     summary |-> <<>>, cleared |-> <<>>, raised |-> FALSE]
NoPersonalityResult ==
    [op |-> "none", dominant_color |-> "", scores |-> <<>>, career_suggestions |-> <<>>,
     strengths |-> <<>>, weaknesses |-> <<>>]
EmptyProfile ==
    [skills |-> <<>>, experience_level |-> "", education |-> "",
     preferred_industries |-> <<>>, interests |-> <<>>]

InitMatch ==
    /\ user_profile \in Profiles
    /\ match_result = NoMatchResult
    /\ gap_result = NoGapResult
    /\ conversation_history = <<>>
    /\ user_context = <<>>
    /\ chat_result = NoChatResult
    /\ responses = <<>>
    /\ personality_result = NoPersonalityResult

NextMatch == CalculateMatchScore \/ GetRecommendations

SpecMatch == InitMatch /\ [][NextMatch]_vars

(***************************************************************************)
(* Claims about the job matcher.                                           *)
(***************************************************************************)
\* the catalog jobs' titles, and the place of a title in the catalog
JobTitles == { job_database[j].job_title : j \in JobIndex }
CatalogPlace(title) == CHOOSE j \in JobIndex : job_database[j].job_title = title

\* C1: every value calculate_match_score returns for a profile and a catalog
\* job lies in [0, 100], whatever the skills, experience, education,
\* industries and similarity.
C1_ScoreInRange ==
    match_result.op = "score" =>
        /\ match_result.score >= 0
        /\ match_result.score <= 100 * Den

\* C1 witness: a score was computed and it is the maximum, 100.
C1_Witness ==
    /\ match_result.op = "score"
    /\ match_result.score = 100 * Den
    /\ user_profile.interests # <<>>

\* the lower-cased names of a list
LowerNames(list) == { lower(x) : x \in Range(list) }

\* 1 if the condition holds, else 0
Bonus(cond) == IF cond THEN 1 ELSE 0

\* C2: the score is min(100, 40*(0.7*|U n R|/|R| + 0.3*|U n P|/|P|) + 20 [experience
\* level among the job's] + 15 [education among the job's] + 15 [a preferred
\* industry among the job's] + 10*sim), names compared in lower case and sim = 0
\* without interest text; with no skills, interests and preferred industries
\* it is one of 0, 15, 20, 35. (Both sides are multiplied by |R|*|P|*SimSteps.)
C2_ScoreFormula ==
    match_result.op = "score" =>
        LET job == job_database[match_result.job]
            U == LowerNames(user_profile.skills)
            R == LowerNames(job.required_skills)
            P == LowerNames(job.preferred_skills)
            nR == Cardinality(R)
            nP == Cardinality(P)
            a == Cardinality({ x \in R : x \in U })
            b == Cardinality({ x \in P : x \in U })
            e == Bonus(\E l \in Range(job.experience_levels) :
                          l = lower(user_profile.experience_level))
            d == Bonus(\E l \in Range(job.education_requirements) :
                          l = lower(user_profile.education))
            i == Bonus(\E x \in Range(user_profile.preferred_industries) :
                          \E y \in Range(job.industries) : lower(x) = lower(y))
            sim == IF \A x \in Range(user_profile.interests) : x = ""
                   THEN 0 ELSE match_result.sims[match_result.job]
            total == 28 * a * nP * SimSteps + 12 * b * nR * SimSteps
                     + (20 * e + 15 * d + 15 * i) * nR * nP * SimSteps
                     + 10 * sim * nR * nP
            full == 100 * nR * nP * SimSteps
        IN  /\ match_result.score * nR * nP * SimSteps = Den * Min(full, total)
            /\ (/\ user_profile.skills = <<>>
                /\ user_profile.interests = <<>>
                /\ user_profile.preferred_industries = <<>>)
               => match_result.score \in { 0, 15 * Den, 20 * Den, 35 * Den }

\* C2 witness: the profile with skills Python and SQL, mid experience,
\* bachelor, technology and no interests scored against Data Scientist:
\* 40*0.7*2/6 + 20 + 15 + 15 = 59 1/3.
C2_Witness ==
    /\ match_result.op = "score"
    /\ match_result.job = 1
    /\ user_profile.skills = <<"Python", "SQL">>
    /\ user_profile.interests = <<>>
    /\ match_result.score * 3 = 178 * Den

\* C3: for top_n >= 0, get_recommendations returns at most top_n entries,
\* each a job of the catalog, no job twice.
C3_AtMostNFromCatalog ==
    (match_result.op = "recommend" /\ match_result.top_n >= 0) =>
        LET recs == match_result.recommendations
        IN  /\ Len(recs) <= match_result.top_n
            /\ \A i \in DOMAIN recs : recs[i].job_title \in JobTitles
            /\ \A i, k \in DOMAIN recs :
                   recs[i].job_title = recs[k].job_title => i = k

\* C3 witness: a call with 0 < top_n < 6 returned exactly top_n jobs.
C3_Witness ==
    /\ match_result.op = "recommend"
    /\ match_result.top_n = 3
    /\ Len(match_result.recommendations) = 3

\* C4: the returned list is sorted by non-increasing match percentage, equal
\* percentages in catalog order, every entry carries the rounded score of its
\* job, and the list is the first top_n entries of that ordering of the whole
\* catalog: min(top_n, 6) entries, every job left out ranking behind every
\* returned one.
C4_SortedStablePrefix ==
    (match_result.op = "recommend" /\ match_result.top_n >= 0) =>
        LET recs == match_result.recommendations
            pct == [j \in JobIndex |->
                       round1(calculate_match_score(user_profile, job_database[j],
                                                    match_result.sims))]
            Pct(j) == pct[j]
            \* job j ranks before job k
            Before(j, k) == Pct(j) > Pct(k) \/ (Pct(j) = Pct(k) /\ j < k)
            returned == { CatalogPlace(recs[i].job_title) : i \in DOMAIN recs }
        IN  /\ \A i \in DOMAIN recs :
                   recs[i].match_percentage = Pct(CatalogPlace(recs[i].job_title))
            /\ \A i, k \in DOMAIN recs : i < k =>
                   /\ recs[i].match_percentage >= recs[k].match_percentage
                   /\ recs[i].match_percentage = recs[k].match_percentage
                        => CatalogPlace(recs[i].job_title) < CatalogPlace(recs[k].job_title)
            /\ Len(recs) = Min(match_result.top_n, Len(job_database))
            /\ \A j \in returned : \A k \in JobIndex \ returned : Before(j, k)

\* C4 witness: a truncated result holding two jobs of equal percentage and a
\* job that comes before one placed earlier in the catalog.
C4_Witness ==
    /\ match_result.op = "recommend"
    /\ match_result.top_n \in 3..5
    /\ LET recs == match_result.recommendations
       IN  /\ Len(recs) = match_result.top_n
           /\ \E i, k \in DOMAIN recs :
                  i < k /\ recs[i].match_percentage = recs[k].match_percentage
           /\ \E i, k \in DOMAIN recs :
                  /\ i < k
                  /\ recs[i].match_percentage > recs[k].match_percentage
                  /\ CatalogPlace(recs[i].job_title) > CatalogPlace(recs[k].job_title)

(***************************************************************************)
(* SkillAnalyzer                                                           *)
(***************************************************************************)
\* SkillInfo that answers 0 for a skill the database does not hold
SkillInfoWithoutDefault(skill_name, field, default) ==
    IF skill_name \in SkillNames THEN skill_database[skill_name][field] ELSE 0

\* the entry of a dict of the skill database, or the default (dict.get)
SkillInfo(skill_name, field, default) ==
    IF skill_name \in SkillNames THEN skill_database[skill_name][field] ELSE default

\* BaseLevelDoubled that looks the tier up in lower case
BaseLevelDoubledAnyCase(experience_level) ==
    CASE lower(experience_level) = "entry" -> 6
      [] lower(experience_level) = "mid" -> 10
      [] lower(experience_level) = "senior" -> 14
      [] lower(experience_level) = "executive" -> 16
      [] OTHER -> 6

\* the level of an experience tier, doubled (base_levels.get(experience_level, 3))
BaseLevelDoubled(experience_level) ==
    CASE experience_level = "entry" -> 6
      [] experience_level = "mid" -> 10
      [] experience_level = "senior" -> 14
      [] experience_level = "executive" -> 16
      [] OTHER -> 6

_estimate_user_level(skill, profile) ==
    LET base == BaseLevelDoubled(profile.experience_level)
        education == lower(profile.education)
        adjusted == IF Contains(education, "phd") THEN base + 2
                    ELSE IF Contains(education, "master") THEN base + 1
                    ELSE base
    IN  Min(adjusted \div 2, 10)

\* MappedRoles that looks for the keys in the interests as written
MappedRolesAsWritten(profile) ==
    Concat([i \in DOMAIN profile.interests |->
        Concat([k \in DOMAIN role_mapping |->
            IF Contains(profile.interests[i], role_mapping[k][1])
            THEN role_mapping[k][2] ELSE <<>>])])

\* target_roles before list(set(...)): the roles of every key in every interest
MappedRoles(profile) ==
    Concat([i \in DOMAIN profile.interests |->
        Concat([k \in DOMAIN role_mapping |->
            IF Contains(lower(profile.interests[i]), role_mapping[k][1])
            THEN role_mapping[k][2] ELSE <<>>])])

\* the lists without repetition whose elements are exactly those of set S
Orderings(S) ==
    { l \in [1..Cardinality(S) -> S] : \A x \in S : \E i \in DOMAIN l : l[i] = x }

\* what _get_target_roles_from_interests may return: list(set(...)) in any
\* order of the set, or the default pair
_get_target_roles_from_interests(profile) ==
    IF Len(MappedRoles(profile)) > 0
    THEN Orderings(Range(MappedRoles(profile)))
    ELSE { <<"Software Engineer", "Data Analyst">> }

\* importance_score with the demand weight applied to 10 - market_demand
ImportanceScoreInvertedDemand(market_demand, difficulty, gap_size) ==
    ((10 - market_demand) * 7 + (10 - difficulty) * 3) * gap_size

\* importance_score, in tenths:
\* (market_demand * 0.7 + (10 - difficulty) * 0.3) * gap_size
ImportanceScore(market_demand, difficulty, gap_size) ==
    (market_demand * 7 + (10 - difficulty) * 3) * gap_size

\* Priority without the tier 'Medium'
PriorityWithoutMedium(importance_score) ==
    IF importance_score >= 70 THEN "High" ELSE "Low"

\* Priority with 'High' from a score of 8 on
PriorityHighFromEight(importance_score) ==
    IF importance_score >= 80 THEN "High"
    ELSE IF importance_score >= 40 THEN "Medium"
    ELSE "Low"

\* the importance tier of a score in tenths: 'High' from 7, 'Medium' from 4
Priority(importance_score) ==
    IF importance_score >= 70 THEN "High"
    ELSE IF importance_score >= 40 THEN "Medium"
    ELSE "Low"

_create_skill_gap_info(skill_name, current_level, required_level, profile) ==
    LET gap_size == required_level - current_level
        market_demand == SkillInfo(skill_name, "market_demand", 5)
        difficulty == SkillInfo(skill_name, "difficulty", 5)
        importance_score == ImportanceScore(market_demand, difficulty, gap_size)
        priority == Priority(importance_score)
    IN  [skill |-> skill_name,
         current_level |-> current_level,
         required_level |-> required_level,
         gap_size |-> gap_size,
         importance |-> priority,
         importance_score |-> importance_score,
         learning_resources |->
            IF skill_name \in SkillNames THEN learning_resources[skill_name] ELSE <<>>,
         estimated_learning_time |-> SkillInfo(skill_name, "avg_learning_time_weeks", 8),
         market_demand |-> market_demand,
         difficulty |-> difficulty,
         category |-> SkillInfo(skill_name, "category", "General")]

\* user_skills.get(name, 0) of the dict {skill.lower(): level}
UserSkillLevel(profile, name) ==
    IF \E i \in DOMAIN profile.skills : lower(profile.skills[i]) = name
    THEN _estimate_user_level(name, profile)
    ELSE 0

\* CollectGaps with the test current_level <= required_level: a skill whose
\* level is exactly the required one is reported too
RECURSIVE CollectGapsIncludingEqual(_, _, _, _)
CollectGapsIncludingEqual(items, profile, skill_gaps, analyzed_skills) ==
    IF Len(items) = 0 THEN skill_gaps
    ELSE LET skill_name == Head(items)[1]
             required_level == Head(items)[2]
             current_level == UserSkillLevel(profile, lower(skill_name))
         IN  IF lower(skill_name) \in analyzed_skills
             THEN CollectGapsIncludingEqual(Tail(items), profile, skill_gaps,
                                            analyzed_skills)
             ELSE IF current_level <= required_level
             THEN CollectGapsIncludingEqual(Tail(items), profile,
                      Append(skill_gaps,
                             _create_skill_gap_info(skill_name, current_level,
                                                    required_level, profile)),
                      analyzed_skills \cup { lower(skill_name) })
             ELSE CollectGapsIncludingEqual(Tail(items), profile, skill_gaps,
                                            analyzed_skills)

\* the two loops of analyze_skill_gaps over the (skill, level) items of the
\* roles in turn: the gaps collected and the skills analyzed so far
RECURSIVE CollectGaps(_, _, _, _)
CollectGaps(items, profile, skill_gaps, analyzed_skills) ==
    IF Len(items) = 0 THEN skill_gaps
    ELSE LET skill_name == Head(items)[1]
             required_level == Head(items)[2]
             current_level == UserSkillLevel(profile, lower(skill_name))
         IN  IF lower(skill_name) \in analyzed_skills
             THEN CollectGaps(Tail(items), profile, skill_gaps, analyzed_skills)
             ELSE IF current_level < required_level
             THEN CollectGaps(Tail(items), profile,
                      Append(skill_gaps,
                             _create_skill_gap_info(skill_name, current_level,
                                                    required_level, profile)),
                      analyzed_skills \cup { lower(skill_name) })
             ELSE CollectGaps(Tail(items), profile, skill_gaps, analyzed_skills)

\* every gap found for the roles, before the sort
AllSkillGaps(profile, roles) ==
    CollectGaps(Concat([r \in DOMAIN roles |-> _get_required_skills_for_role(roles[r])]),
                profile, <<>>, {})

\* analyze_skill_gaps that sorts by importance_score alone
analyze_skill_gaps_by_score(profile, roles) ==
    LET skill_gaps == AllSkillGaps(profile, roles)
        sorted == sort_reverse([i \in DOMAIN skill_gaps |->
                      [key |-> <<skill_gaps[i].importance_score>>,
                       item |-> skill_gaps[i]]])
    IN  Slice(sorted, 10)

\* analyze_skill_gaps once the roles are known
analyze_skill_gaps(profile, roles) ==
    LET skill_gaps == AllSkillGaps(profile, roles)
        sorted == sort_reverse([i \in DOMAIN skill_gaps |->
                      [key |-> <<skill_gaps[i].importance_score, skill_gaps[i].gap_size>>,
                       item |-> skill_gaps[i]]])
    IN  Slice(sorted, 10)

\* one call of analyze_skill_gaps(user_profile, target_roles)
AnalyzeSkillGaps ==
    /\ gap_result.op = "none"
    /\ \E target_roles \in RoleLists(MaxTargetRoles) :
         \E roles \in (IF Len(target_roles) = 0
                       THEN _get_target_roles_from_interests(user_profile)
                       ELSE { target_roles }) :
            gap_result' = [op |-> "analyze", target_roles |-> target_roles,
                           roles |-> roles,
                           gaps |-> analyze_skill_gaps(user_profile, roles)]
    /\ UNCHANGED <<user_profile, match_result, conversation_history, user_context,
                   chat_result, responses, personality_result>>

InitSkill ==
    /\ user_profile \in GapProfiles
    /\ match_result = NoMatchResult
    /\ gap_result = NoGapResult
    /\ conversation_history = <<>>
    /\ user_context = <<>>
    /\ chat_result = NoChatResult
    /\ responses = <<>>
    /\ personality_result = NoPersonalityResult

NextSkill == AnalyzeSkillGaps

SpecSkill == InitSkill /\ [][NextSkill]_vars

(***************************************************************************)
(* Claims about the skill analyzer.                                        *)
(***************************************************************************)
\* C5: analyze_skill_gaps returns at most 10 gaps, and every returned gap has
\* current_level < required_level and gap_size = required_level -
\* current_level >= 1.
C5_AtMostTenRealGaps ==
    gap_result.op = "analyze" =>
        /\ Len(gap_result.gaps) <= 10
        /\ \A i \in DOMAIN gap_result.gaps :
              LET g == gap_result.gaps[i]
              IN  /\ g.current_level < g.required_level
                  /\ g.gap_size = g.required_level - g.current_level
                  /\ g.gap_size >= 1

\* C5 witness: more than 10 gaps were found and 10 returned, for a profile
\* that already meets the required level of some skill of the roles.
C5_Witness ==
    /\ gap_result.op = "analyze"
    /\ Len(gap_result.gaps) = 10
    /\ Len(AllSkillGaps(user_profile, gap_result.roles)) > 10
    /\ \E r \in DOMAIN gap_result.roles :
          LET items == _get_required_skills_for_role(gap_result.roles[r])
          IN  \E k \in DOMAIN items :
                 UserSkillLevel(user_profile, lower(items[k][1])) >= items[k][2]

\* the (skill, level) items of the roles' tables, in the order they are visited
RoleItems(roles) ==
    Concat([r \in DOMAIN roles |-> _get_required_skills_for_role(roles[r])])

\* the required level the first visited item for a skill carries
FirstRequiredLevel(roles, skill_name) ==
    LET items == RoleItems(roles)
        first == CHOOSE k \in DOMAIN items :
                    /\ lower(items[k][1]) = lower(skill_name)
                    /\ \A h \in 1..(k - 1) : lower(items[h][1]) # lower(skill_name)
    IN  items[first][2]

\* C13: each skill occurs at most once among the gaps of analyze_skill_gaps,
\* and the first target role that lists a skill decides whether the skill is
\* a gap and with which required level: a gap carries the level of the first
\* role listing its skill, and that level is above the user's.
C13_FirstRoleDecides ==
    gap_result.op = "analyze" =>
        /\ \A i, k \in DOMAIN gap_result.gaps :
              lower(gap_result.gaps[i].skill) = lower(gap_result.gaps[k].skill) => i = k
        /\ \A i \in DOMAIN gap_result.gaps :
              /\ gap_result.gaps[i].required_level =
                    FirstRequiredLevel(gap_result.roles, gap_result.gaps[i].skill)
              /\ gap_result.gaps[i].current_level <
                    FirstRequiredLevel(gap_result.roles, gap_result.gaps[i].skill)

\* C13 witness: the first role asks level 6 in Python of a user at level 7,
\* and the gap reported for Python carries the second role's level 8.
C13_Witness ==
    /\ gap_result.op = "analyze"
    /\ gap_result.roles = <<"Software Engineer", "Data Scientist">>
    /\ FirstRequiredLevel(gap_result.roles, "Python") = 6
    /\ \E i \in DOMAIN gap_result.gaps :
          /\ gap_result.gaps[i].skill = "Python"
          /\ gap_result.gaps[i].current_level = 7
          /\ gap_result.gaps[i].required_level = 8

\* C19: every gap analyze_skill_gaps returns has importance_score =
\* (market_demand * 0.7 + (10 - difficulty) * 0.3) * gap_size (held in tenths)
\* and the tier 'High' exactly when the score is >= 7, 'Medium' exactly when
\* 4 <= score < 7 and 'Low' exactly when it is < 4.
C19_ScoreAndTier ==
    gap_result.op = "analyze" =>
        \A i \in DOMAIN gap_result.gaps :
            /\ gap_result.gaps[i].importance_score =
                  (gap_result.gaps[i].market_demand * 7
                     + (10 - gap_result.gaps[i].difficulty) * 3)
                  * gap_result.gaps[i].gap_size
            /\ gap_result.gaps[i].importance = "High"
                  <=> gap_result.gaps[i].importance_score >= 70
            /\ gap_result.gaps[i].importance = "Medium"
                  <=> (gap_result.gaps[i].importance_score >= 40
                         /\ gap_result.gaps[i].importance_score < 70)
            /\ gap_result.gaps[i].importance = "Low"
                  <=> gap_result.gaps[i].importance_score < 40

\* C19 witness: a result with a gap of score 6.8 in the tier 'Medium'
\* (Project Management, one level short) and a gap of score 79.2 in the tier
\* 'High' (Communication, nine levels short).
C19_Witness ==
    /\ gap_result.op = "analyze"
    /\ \E i \in DOMAIN gap_result.gaps :
          /\ gap_result.gaps[i].skill = "Project Management"
          /\ gap_result.gaps[i].gap_size = 1
          /\ gap_result.gaps[i].importance_score = 68
          /\ gap_result.gaps[i].importance = "Medium"
    /\ \E i \in DOMAIN gap_result.gaps :
          /\ gap_result.gaps[i].skill = "Communication"
          /\ gap_result.gaps[i].gap_size = 9
          /\ gap_result.gaps[i].importance_score = 792
          /\ gap_result.gaps[i].importance = "High"

\* whether the sort key <<importance_score, gap_size>> of gap a is above that
\* of gap b
C20_RanksAbove(a, b) ==
    \/ a.importance_score > b.importance_score
    \/ a.importance_score = b.importance_score /\ a.gap_size > b.gap_size

\* C20: analyze_skill_gaps returns the first 10 of all the gaps it computed,
\* ordered descending by (importance_score, gap_size): of two consecutive
\* returned gaps the first has the greater score, or the same score and a
\* gap_size at least as large; no gap left out ranks strictly above a
\* returned one.
C20_TopTenByScoreThenGap ==
    gap_result.op = "analyze" =>
        /\ Len(gap_result.gaps) =
              (IF Len(AllSkillGaps(user_profile, gap_result.roles)) < 10
               THEN Len(AllSkillGaps(user_profile, gap_result.roles)) ELSE 10)
        /\ Range(gap_result.gaps) \subseteq Range(AllSkillGaps(user_profile, gap_result.roles))
        /\ \A i, k \in DOMAIN gap_result.gaps :
              i < k => gap_result.gaps[i] # gap_result.gaps[k]
        /\ \A i \in 1..(Len(gap_result.gaps) - 1) :
              ~C20_RanksAbove(gap_result.gaps[i + 1], gap_result.gaps[i])
        /\ \A omitted \in Range(AllSkillGaps(user_profile, gap_result.roles))
                            \ Range(gap_result.gaps) :
              \A i \in DOMAIN gap_result.gaps :
                 ~C20_RanksAbove(omitted, gap_result.gaps[i])

\* C20 witness: Statistics (three levels short) and Python (two levels short)
\* both score 15.0; Python was found first, and Statistics is returned right
\* before it.
C20_Witness ==
    /\ gap_result.op = "analyze"
    /\ gap_result.roles = <<"Software Engineer", "Data Scientist">>
    /\ \E i \in 1..(Len(gap_result.gaps) - 1) :
          /\ gap_result.gaps[i].skill = "Statistics"
          /\ gap_result.gaps[i].gap_size = 3
          /\ gap_result.gaps[i].importance_score = 150
          /\ gap_result.gaps[i + 1].skill = "Python"
          /\ gap_result.gaps[i + 1].gap_size = 2
          /\ gap_result.gaps[i + 1].importance_score = 150

\* a result of ten gaps that leaves out gaps ranking below all of them
C20_GapsLeftOut ==
    /\ gap_result.op = "analyze"
    /\ Len(gap_result.gaps) = 10
    /\ \E omitted \in Range(AllSkillGaps(user_profile, gap_result.roles))
                        \ Range(gap_result.gaps) :
          C20_RanksAbove(gap_result.gaps[10], omitted)

\* the interest keys C21 names, each with its roles
C21_RolesOfKey ==
    { <<"technology", "Software Engineer">>, <<"technology", "Data Scientist">>,
      <<"data", "Data Scientist">>, <<"data", "Data Analyst">>,
      <<"management", "Project Manager">>, <<"management", "Product Manager">>,
      <<"design", "UX Designer">>, <<"design", "Product Designer">>,
      <<"security", "Cybersecurity Analyst">>, <<"security", "Security Engineer">> }

\* the roles of the keys found in some lower-cased interest of a profile
C21_DerivedRoles(profile) ==
    { pair[2] : pair \in
        { p \in C21_RolesOfKey :
            \E i \in DOMAIN profile.interests :
                Contains(lower(profile.interests[i]), p[1]) } }

\* C21: without target roles, analyze_skill_gaps analyzes exactly the roles
\* mapped from a key (technology, data, management, design, security) found
\* in some lower-cased interest, each role once, and the pair Software
\* Engineer, Data Analyst when no interest holds a key; target roles that are
\* supplied are analyzed as given, whatever the interests.
C21_RolesAnalyzed ==
    gap_result.op = "analyze" =>
        IF Len(gap_result.target_roles) > 0
        THEN gap_result.roles = gap_result.target_roles
        ELSE IF C21_DerivedRoles(user_profile) = {}
        THEN gap_result.roles = <<"Software Engineer", "Data Analyst">>
        ELSE /\ Range(gap_result.roles) = C21_DerivedRoles(user_profile)
             /\ \A i, k \in DOMAIN gap_result.roles :
                   gap_result.roles[i] = gap_result.roles[k] => i = k

\* C21 witness: no target roles and the interests "Big Data" and "data
\* technology": the key data is found twice and technology once, and three
\* roles are analyzed, Data Scientist once.
C21_Witness ==
    /\ gap_result.op = "analyze"
    /\ gap_result.target_roles = <<>>
    /\ user_profile.interests = <<"Big Data", "data technology">>
    /\ Len(gap_result.roles) = 3
    /\ Range(gap_result.roles) = { "Software Engineer", "Data Scientist", "Data Analyst" }

\* C24: when the target roles are derived from the interests, the gap list
\* analyze_skill_gaps returns for a profile (skills, required levels, order)
\* is the same for every order in which the derived set of roles is
\* enumerated.
C24_SameGapsForEveryRoleOrder ==
    (gap_result.op = "analyze" /\ Len(gap_result.target_roles) = 0) =>
        \A roles \in _get_target_roles_from_interests(user_profile) :
            analyze_skill_gaps(user_profile, roles) = gap_result.gaps

\* C24 failing state: the roles derived from the interests were enumerated
\* with the Data Analyst first and the gap in Communication asks level 7;
\* enumerated with the Data Scientist first it asks level 6.
C24_Witness ==
    /\ gap_result.op = "analyze"
    /\ gap_result.target_roles = <<>>
    /\ user_profile.skills = <<>>
    /\ gap_result.roles = <<"Data Analyst", "Data Scientist", "Software Engineer">>
    /\ \E i \in DOMAIN gap_result.gaps :
          /\ gap_result.gaps[i].skill = "Communication"
          /\ gap_result.gaps[i].required_level = 7
    /\ <<"Data Scientist", "Data Analyst", "Software Engineer">>
          \in _get_target_roles_from_interests(user_profile)
    /\ \E i \in DOMAIN analyze_skill_gaps(user_profile,
                    <<"Data Scientist", "Data Analyst", "Software Engineer">>) :
          /\ analyze_skill_gaps(user_profile,
                 <<"Data Scientist", "Data Analyst", "Software Engineer">>)[i].skill
                = "Communication"
          /\ analyze_skill_gaps(user_profile,
                 <<"Data Scientist", "Data Analyst", "Software Engineer">>)[i].required_level
                = 6

\* C25: no gap analyze_skill_gaps returns is in the tier 'Low': with the
\* static skill database, and market demand 5 and difficulty 5 for a skill it
\* does not hold, every returned gap has importance_score >= 4 and the tier
\* 'High' or 'Medium'; already a gap of one level scores at least 4 for
\* every skill.
C25_NeverLow ==
    /\ gap_result.op = "analyze" =>
          \A i \in DOMAIN gap_result.gaps :
              /\ gap_result.gaps[i].importance_score >= 40
              /\ gap_result.gaps[i].importance \in { "High", "Medium" }
    /\ \A name \in SkillNames \cup { "Statistics" } :
          ImportanceScore(SkillInfo(name, "market_demand", 5),
                          SkillInfo(name, "difficulty", 5), 1) >= 40

\* C25 witness: a result whose gaps are in both tiers, the lowest of them
\* with score 6.8 in the tier 'Medium'.
C25_Witness ==
    /\ gap_result.op = "analyze"
    /\ \E i \in DOMAIN gap_result.gaps : gap_result.gaps[i].importance = "High"
    /\ \E i \in DOMAIN gap_result.gaps :
          /\ gap_result.gaps[i].importance = "Medium"
          /\ gap_result.gaps[i].importance_score = 68
    /\ \A i \in DOMAIN gap_result.gaps : gap_result.gaps[i].importance_score >= 68

(***************************************************************************)
(* _estimate_user_level on profiles of every tier and education.           *)
(***************************************************************************)
LevelProfiles ==
    [skills : GapSkillLists,
     experience_level : GapExperienceLevels \cup { "mid", "" },
     education : GapEducations \cup { "Bachelor", "Master's degree, then PHD" },
     preferred_industries : { <<>> },
     interests : { <<>> }]

\* one call of _estimate_user_level(skill, user_profile), for a claimed skill
\* or another one
EstimateUserLevel ==
    /\ gap_result.op = "none"
    /\ \E skill \in Range(user_profile.skills) \cup { "Rust" } :
          gap_result' = [op |-> "_estimate_user_level", skill |-> skill,
                         level |-> _estimate_user_level(skill, user_profile)]
    /\ UNCHANGED <<user_profile, match_result, conversation_history, user_context,
                   chat_result, responses, personality_result>>

InitLevel ==
    /\ user_profile \in LevelProfiles
    /\ match_result = NoMatchResult
    /\ gap_result = NoGapResult
    /\ conversation_history = <<>>
    /\ user_context = <<>>
    /\ chat_result = NoChatResult
    /\ responses = <<>>
    /\ personality_result = NoPersonalityResult

NextLevel == EstimateUserLevel

SpecLevel == InitLevel /\ [][NextLevel]_vars

\* twice the level C18 states before truncation: the base of the tier, plus 1
\* for 'phd' and plus 0.5 for 'master' in the education
C18_DoubledLevel(profile) ==
    2 * (CASE profile.experience_level = "entry" -> 3
           [] profile.experience_level = "mid" -> 5
           [] profile.experience_level = "senior" -> 7
           [] profile.experience_level = "executive" -> 8
           [] OTHER -> 3)
    + (IF Contains(lower(profile.education), "phd") THEN 2 ELSE 0)
    + (IF Contains(lower(profile.education), "master") THEN 1 ELSE 0)

\* C18: _estimate_user_level returns the base level of the experience tier
\* (entry 3, mid 5, senior 7, executive 8, any other tier 3) plus 1 if the
\* education contains 'phd' plus 0.5 if it contains 'master', truncated to an
\* integer and capped at 10; it never exceeds 10 and is the same for every
\* claimed skill of the profile.
C18_LevelByTierAndEducation ==
    gap_result.op = "_estimate_user_level" =>
        /\ gap_result.level =
              (IF C18_DoubledLevel(user_profile) \div 2 < 10
               THEN C18_DoubledLevel(user_profile) \div 2 ELSE 10)
        /\ gap_result.level <= 10
        /\ \A i \in DOMAIN user_profile.skills :
              _estimate_user_level(user_profile.skills[i], user_profile) = gap_result.level

\* C18 witness: a mid-tier profile whose education names both degrees is at
\* level 6 (5 + 1 + 0.5 truncated), in a skill it claims.
C18_Witness ==
    /\ gap_result.op = "_estimate_user_level"
    /\ user_profile.experience_level = "mid"
    /\ user_profile.education = "Master's degree, then PHD"
    /\ gap_result.skill \in Range(user_profile.skills)
    /\ gap_result.level = 6

(***************************************************************************)
(* The importance score as a function of its three inputs.                 *)
(***************************************************************************)
\* the values market_demand and difficulty take (ratings out of 10)
Ratings == 1..10

\* one evaluation of the importance formula of _create_skill_gap_info
ComputeImportanceScore ==
    /\ gap_result.op = "none"
    /\ \E market_demand \in Ratings, difficulty \in Ratings, gap_size \in 1..MaxGapSize :
          gap_result' = [op |-> "importance", market_demand |-> market_demand,
                         difficulty |-> difficulty, gap_size |-> gap_size,
                         importance_score |->
                             ImportanceScore(market_demand, difficulty, gap_size)]
    /\ UNCHANGED <<user_profile, match_result, conversation_history, user_context,
                   chat_result, responses, personality_result>>

InitImportance ==
    /\ user_profile = EmptyProfile
    /\ match_result = NoMatchResult
    /\ gap_result = NoGapResult
    /\ conversation_history = <<>>
    /\ user_context = <<>>
    /\ chat_result = NoChatResult
    /\ responses = <<>>
    /\ personality_result = NoPersonalityResult

NextImportance == ComputeImportanceScore

SpecImportance == InitImportance /\ [][NextImportance]_vars

\* C11: with difficulty fixed, for market demand and difficulty in 1..10 and
\* gap sizes >= 1, no higher market demand and no larger gap size gives a
\* lower importance_score.
C11_ImportanceMonotone ==
    gap_result.op = "importance" =>
        /\ \A market_demand \in Ratings :
              market_demand >= gap_result.market_demand =>
                 ImportanceScore(market_demand, gap_result.difficulty,
                                 gap_result.gap_size) >= gap_result.importance_score
        /\ \A gap_size \in 1..(MaxGapSize + 1) :
              gap_size >= gap_result.gap_size =>
                 ImportanceScore(gap_result.market_demand, gap_result.difficulty,
                                 gap_size) >= gap_result.importance_score

\* C11 witness: a score that a higher market demand and a larger gap both
\* raise strictly, at the hardest difficulty.
C11_Witness ==
    /\ gap_result.op = "importance"
    /\ gap_result.difficulty = 10
    /\ gap_result.market_demand = 9
    /\ gap_result.gap_size = 2
    /\ gap_result.importance_score = 126
    /\ ImportanceScore(10, 10, 2) = 140
    /\ ImportanceScore(9, 10, 3) = 189

(***************************************************************************)
(* Lookups by name: get_skill_recommendations, analyze_skill_gaps and      *)
(* get_skill_learning_path on names the tables may not hold.               *)
(***************************************************************************)
\* the target_job arguments: catalog titles, a catalog title in another
\* case, and a title the catalog does not hold
TargetJobs == { "Product Manager", "UX Designer", "product manager", "Astronaut" }

\* the skill_name arguments: database skills, a database skill in another
\* case, and a skill the database does not hold
PathSkills == { "Python", "Communication", "python", "Rust" }

\* the set {s.lower() for s in list}
LowerSet(list) == { lower(list[i]) : i \in DOMAIN list }

\* next((job for job in job_database if job['job_title'] == target_job), None),
\* as the index of the job, 0 for None
FindJob(target_job) ==
    IF \E j \in JobIndex : job_database[j].job_title = target_job
    THEN CHOOSE j \in JobIndex :
            /\ job_database[j].job_title = target_job
            /\ \A k \in 1..(j - 1) : job_database[k].job_title # target_job
    ELSE 0

\* MissingSkillLists with the missing preferred skills first
MissingSkillListsPreferredFirst(user_skills, required_skills, preferred_skills) ==
    { preferred \o required :
        required \in Orderings(required_skills \ user_skills),
        preferred \in Orderings(preferred_skills \ user_skills) }

\* list(missing_required) + list(missing_preferred), each set in any order
MissingSkillLists(user_skills, required_skills, preferred_skills) ==
    { required \o preferred :
        required \in Orderings(required_skills \ user_skills),
        preferred \in Orderings(preferred_skills \ user_skills) }

\* what get_skill_recommendations may return
get_skill_recommendations(profile, target_job) ==
    IF FindJob(target_job) = 0 THEN { <<>> }
    ELSE { Slice(recommendations, 10) :
             recommendations \in
                MissingSkillLists(LowerSet(profile.skills),
                    LowerSet(job_database[FindJob(target_job)].required_skills),
                    LowerSet(job_database[FindJob(target_job)].preferred_skills)) }

\* int(x) of the fraction num / den as a floor: rounding down
IntOfFractionFloor(num, den) == num \div den

\* int(x) of the fraction num / den: truncation towards zero
IntOfFraction(num, den) ==
    IF num >= 0 THEN num \div den ELSE 0 - ((0 - num) \div den)

\* the milestones of levels current_level + 1 .. target_level
Milestones(skill_name, current_level, target_level, weeks_per_level) ==
    [k \in 1..(IF target_level > current_level THEN target_level - current_level ELSE 0) |->
        [level |-> current_level + k,
         description |-> "Reach level " \o ToString(current_level + k) \o " in " \o skill_name,
         estimated_weeks |-> weeks_per_level,
         resources |->
            Slice(IF skill_name \in SkillNames THEN learning_resources[skill_name]
                  ELSE <<>>, 3)]]

\* get_skill_learning_path; weeks_per_level and the milestones' estimated_weeks
\* are in tenths of a week
get_skill_learning_path(skill_name, current_level, target_level) ==
    [skill |-> skill_name,
     current_level |-> current_level,
     target_level |-> target_level,
     estimated_total_weeks |->
        IntOfFraction((target_level - current_level)
                        * SkillInfo(skill_name, "avg_learning_time_weeks", 8), 10),
     difficulty |-> SkillInfo(skill_name, "difficulty", 5),
     milestones |-> Milestones(skill_name, current_level, target_level,
                               SkillInfo(skill_name, "avg_learning_time_weeks", 8)),
     related_skills |-> SkillInfo(skill_name, "related_skills", <<>>),
     career_impact |-> SkillInfo(skill_name, "job_roles", <<>>)]

\* no request has been served: the engines keep nothing between requests, so
\* a behaviour follows one request
NoRequestYet ==
    /\ match_result.op = "none"
    /\ gap_result.op = "none"

\* one call of get_skill_recommendations(user_profile, target_job) for a
\* target job of a pool
RecommendSkillsFor(target_jobs) ==
    /\ NoRequestYet
    /\ \E target_job \in target_jobs :
         \E recommendations \in get_skill_recommendations(user_profile, target_job) :
            match_result' = [op |-> "skill_recommendations", target_job |-> target_job,
                             recommendations |-> recommendations]
    /\ UNCHANGED <<user_profile, gap_result, conversation_history, user_context,
                   chat_result, responses, personality_result>>

\* one call of get_skill_recommendations(user_profile, target_job)
GetSkillRecommendations == RecommendSkillsFor(TargetJobs)

\* one call of analyze_skill_gaps, as the only request
AnalyzeSkillGapsOnly ==
    /\ NoRequestYet
    /\ AnalyzeSkillGaps

\* one call of get_skill_learning_path(skill_name, current_level, target_level)
GetSkillLearningPath ==
    /\ NoRequestYet
    /\ \E skill_name \in PathSkills, current_level \in 0..MaxPathLevel,
          target_level \in 0..MaxPathLevel :
         gap_result' = [op |-> "learning_path",
                        path |-> get_skill_learning_path(skill_name, current_level,
                                                         target_level)]
    /\ UNCHANGED <<user_profile, match_result, conversation_history, user_context,
                   chat_result, responses, personality_result>>

InitLookup == InitSkill

NextLookup ==
    \/ GetSkillRecommendations
    \/ AnalyzeSkillGapsOnly
    \/ GetSkillLearningPath

SpecLookup == InitLookup /\ [][NextLookup]_vars

\* the roles of a list that have a requirements table, in the list's order
RolesWithTable(roles) == SelectSeq(roles, LAMBDA role : role \in RoleNames)

\* C12: a lookup of a missing key yields a neutral default: a job title not
\* in the catalog gives no skill recommendations; a target role without a
\* requirements table adds no gap; a skill the database does not hold is
\* given market demand 5, difficulty 5, 8 learning weeks, category 'General'
\* and no resources by analyze_skill_gaps, and difficulty 5, 8/10 week per
\* level, no resources, no related skills and no roles by
\* get_skill_learning_path.
C12_MissingKeysGiveDefaults ==
    /\ match_result.op = "skill_recommendations" =>
          ((\A j \in JobIndex : job_database[j].job_title # match_result.target_job)
              => match_result.recommendations = <<>>)
    /\ gap_result.op = "analyze" =>
          /\ gap_result.gaps =
                analyze_skill_gaps(user_profile, RolesWithTable(gap_result.roles))
          /\ \A i \in DOMAIN gap_result.gaps :
                gap_result.gaps[i].skill \notin SkillNames =>
                    /\ gap_result.gaps[i].market_demand = 5
                    /\ gap_result.gaps[i].difficulty = 5
                    /\ gap_result.gaps[i].estimated_learning_time = 8
                    /\ gap_result.gaps[i].category = "General"
                    /\ gap_result.gaps[i].learning_resources = <<>>
    /\ gap_result.op = "learning_path" =>
          (gap_result.path.skill \notin SkillNames =>
              /\ gap_result.path.difficulty = 5
              /\ gap_result.path.estimated_total_weeks =
                    IntOfFraction(8 * (gap_result.path.target_level
                                         - gap_result.path.current_level), 10)
              /\ gap_result.path.related_skills = <<>>
              /\ gap_result.path.career_impact = <<>>
              /\ \A k \in DOMAIN gap_result.path.milestones :
                    /\ gap_result.path.milestones[k].estimated_weeks = 8
                    /\ gap_result.path.milestones[k].resources = <<>>)

\* C12 witness: the gaps of a role list that holds a role without a table
\* and a role whose table names a skill the database does not hold.
C12_Witness ==
    /\ gap_result.op = "analyze"
    /\ gap_result.roles = <<"UX Designer", "Data Scientist">>
    /\ \E i \in DOMAIN gap_result.gaps :
          /\ gap_result.gaps[i].skill = "Statistics"
          /\ gap_result.gaps[i].category = "General"

\* C22: get_skill_learning_path returns estimated_total_weeks = (target -
\* current) * avg_learning_time_weeks / 10 truncated to an integer, and one
\* milestone for each level current + 1 .. target, in ascending order, each
\* with the first 3 (at most) learning resources of the skill; there is no
\* milestone when target <= current.
C22_WeeksAndMilestones ==
    gap_result.op = "learning_path" =>
        LET path == gap_result.path
            tenths == (path.target_level - path.current_level)
                        * (IF path.skill \in SkillNames
                           THEN skill_database[path.skill].avg_learning_time_weeks
                           ELSE 8)
            resources == IF path.skill \in SkillNames
                         THEN learning_resources[path.skill] ELSE <<>>
        IN  /\ IF tenths >= 0
               THEN /\ 10 * path.estimated_total_weeks <= tenths
                    /\ tenths < 10 * path.estimated_total_weeks + 10
               ELSE /\ 10 * path.estimated_total_weeks >= tenths
                    /\ tenths > 10 * path.estimated_total_weeks - 10
            /\ Len(path.milestones) =
                  (IF path.target_level > path.current_level
                   THEN path.target_level - path.current_level ELSE 0)
            /\ \A k \in DOMAIN path.milestones :
                  /\ path.milestones[k].level = path.current_level + k
                  /\ Len(path.milestones[k].resources) =
                        (IF Len(resources) < 3 THEN Len(resources) ELSE 3)
                  /\ \A r \in DOMAIN path.milestones[k].resources :
                        path.milestones[k].resources[r] = resources[r]

\* C22 witness: Python from level 1 to level 4: 3.6 weeks truncated to 3,
\* the milestones of levels 2, 3 and 4, each with 3 of the 5 resources.
C22_Witness ==
    /\ gap_result.op = "learning_path"
    /\ gap_result.path.skill = "Python"
    /\ gap_result.path.current_level = 1
    /\ gap_result.path.target_level = 4
    /\ gap_result.path.estimated_total_weeks = 3
    /\ Len(gap_result.path.milestones) = 3
    /\ gap_result.path.milestones[3].level = 4
    /\ Len(gap_result.path.milestones[3].resources) = 3
    /\ Len(learning_resources["Python"]) = 5

\* a path downwards: no milestone, and -1.2 weeks truncated to -1
C22_NoMilestoneDownwards ==
    /\ gap_result.op = "learning_path"
    /\ gap_result.path.skill = "Python"
    /\ gap_result.path.current_level = 2
    /\ gap_result.path.target_level = 1
    /\ gap_result.path.estimated_total_weeks = -1
    /\ gap_result.path.milestones = <<>>

(***************************************************************************)
(* get_skill_recommendations on every job of the catalog.                  *)
(***************************************************************************)
\* the skills of the profiles: none, every skill of the Data Scientist in
\* other cases, the required skills of the Software Engineer and one of the
\* preferred ones, and skills spread over several jobs
RecommendationSkillLists ==
    { <<>>,
      <<"PYTHON", "machine learning", "Statistics", "sql", "Data Visualization", "r",
        "Deep Learning", "big data", "Cloud Computing", "Tableau">>,
      <<"Programming", "Problem Solving", "System Design", "Git", "JavaScript">>,
      <<"Python", "SQL", "analytics", "User Research", "Communication", "Cobol">> }

RecommendationProfiles ==
    [skills : RecommendationSkillLists, experience_level : { "mid" },
     education : { "bachelor" }, preferred_industries : { <<>> }, interests : { <<>> }]

\* one call of get_skill_recommendations(user_profile, target_job) for a job
\* of the catalog
GetCatalogSkillRecommendations ==
    RecommendSkillsFor({ job_database[j].job_title : j \in JobIndex })

InitRecommendation ==
    /\ user_profile \in RecommendationProfiles
    /\ match_result = NoMatchResult
    /\ gap_result = NoGapResult
    /\ conversation_history = <<>>
    /\ user_context = <<>>
    /\ chat_result = NoChatResult
    /\ responses = <<>>
    /\ personality_result = NoPersonalityResult

NextRecommendation == GetCatalogSkillRecommendations

SpecRecommendation == InitRecommendation /\ [][NextRecommendation]_vars

\* the lower-cased names of a list that are not lower-cased skills of the user
C23_Lacking(list) ==
    { lower(list[i]) : i \in DOMAIN list }
        \ { lower(user_profile.skills[i]) : i \in DOMAIN user_profile.skills }

\* C23: for a job of the catalog get_skill_recommendations returns at most
\* 10 skills: every required skill the user lacks, then every preferred
\* skill the user lacks, names compared in lower case; no returned skill is
\* a skill of the user, and every missing required skill comes before every
\* missing preferred one.
C23_RequiredThenPreferred ==
    (match_result.op = "skill_recommendations" /\ FindJob(match_result.target_job) # 0) =>
        LET job == job_database[FindJob(match_result.target_job)]
            recommendations == match_result.recommendations
        IN  /\ Len(recommendations) <= 10
            /\ Range(recommendations) =
                  C23_Lacking(job.required_skills) \cup C23_Lacking(job.preferred_skills)
            /\ \A i \in DOMAIN recommendations :
                  \A k \in DOMAIN user_profile.skills :
                     recommendations[i] # lower(user_profile.skills[k])
            /\ \A i, k \in DOMAIN recommendations :
                  (recommendations[i] \in C23_Lacking(job.preferred_skills)
                     /\ recommendations[k] \in C23_Lacking(job.required_skills)) => k < i

\* C23 witness: a user with "Python", "SQL" and "Communication" asks for the
\* Data Scientist: four required skills, then the four preferred ones.
C23_Witness ==
    /\ match_result.op = "skill_recommendations"
    /\ match_result.target_job = "Data Scientist"
    /\ "Python" \in Range(user_profile.skills)
    /\ Len(match_result.recommendations) = 8
    /\ Range(SubSeq(match_result.recommendations, 1, 4)) =
          { "machine learning", "statistics", "data visualization", "r" }
    /\ match_result.recommendations[5] = "tableau"

\* a user without skills asks for the Data Scientist: all 10 skills
C23_TenSkills ==
    /\ match_result.op = "skill_recommendations"
    /\ user_profile.skills = <<>>
    /\ Len(match_result.recommendations) = 10

(***************************************************************************)
(* CareerChatbot                                                           *)
(***************************************************************************)
\* dict.get(key, default)
DictGet(dict, key, default) == IF key \in DOMAIN dict THEN dict[key] ELSE default

\* dict.update(other) that drops the keys `other` does not hold
DictReplace(dict, other) == other

\* dict.update(other)
DictUpdate(dict, other) ==
    [k \in DOMAIN dict \cup DOMAIN other |-> IF k \in DOMAIN other THEN other[k] ELSE dict[k]]

\* the value of `key` in a table of <<key, value>> pairs
TableKeys(table) == { table[i][1] : i \in DOMAIN table }
TableGet(table, key) == table[CHOOSE i \in DOMAIN table : table[i][1] = key][2]

\* the loops of _analyze_intent from the k-th intent on
RECURSIVE FirstMatchingIntent(_, _, _)
FirstMatchingIntent(message_lower, patterns, k) ==
    IF k > Len(patterns) THEN "general"
    ELSE IF \E i \in DOMAIN patterns[k][2] : Contains(message_lower, patterns[k][2][i])
    THEN patterns[k][1]
    ELSE FirstMatchingIntent(message_lower, patterns, k + 1)

\* _analyze_intent with skill_development tried before salary_negotiation
_analyze_intent_reordered(message) ==
    FirstMatchingIntent(lower(message),
        <<intent_patterns[1], intent_patterns[3], intent_patterns[2]>>
            \o SubSeq(intent_patterns, 4, Len(intent_patterns)), 1)

\* _analyze_intent tabulated on the chat messages, so that a conversation does
\* not classify the same text again at every step
IntentOfChat ==
    [message \in ChatMessages |-> FirstMatchingIntent(lower(message), intent_patterns, 1)]

_analyze_intent(message) ==
    IF message \in DOMAIN IntentOfChat THEN IntentOfChat[message]
    ELSE FirstMatchingIntent(lower(message), intent_patterns, 1)

\* the tip prefix (the source's leading emoji is left out)
TipPrefix == "\n\nPersonalized tip: "

\* what a call yields: a returned value, or a raised exception
Returned(value) == [raised |-> FALSE, value |-> value]
Raised(exception) == [raised |-> TRUE, value |-> exception]

\* sep.join(items): TypeError unless every item is a string
Join(items, sep) ==
    IF \A i \in DOMAIN items : items[i].type = "str"
    THEN Returned(JoinWith([i \in DOMAIN items |-> items[i].value], sep))
    ELSE Raised("TypeError")

_add_personalized_advice(context, intent) ==
    IF DOMAIN context = {} THEN Returned("")
    ELSE LET experience_level == DictGet(context, "experience_level", "")
             skills == DictGet(context, "skills", <<>>)
             interests == DictGet(context, "interests", <<>>)
         IN  IF intent = "career_change" /\ experience_level # ""
             THEN IF experience_level = "entry"
                  THEN Returned(TipPrefix \o "As someone early in your career, you have great flexibility to explore different paths. Focus on building transferable skills.")
                  ELSE IF experience_level \in { "mid", "senior" }
                  THEN Returned(TipPrefix \o "With your experience level, you can leverage your existing expertise while transitioning. Consider roles that value your background.")
                  ELSE Returned(TipPrefix)
             ELSE IF intent = "skill_development" /\ Len(skills) > 0
             THEN LET joined == Join(Slice(skills, 3), ", ")
                  IN  IF joined.raised THEN joined
                      ELSE Returned(TipPrefix \o "Based on your current skills in "
                               \o joined.value
                               \o ", I'd recommend focusing on complementary skills that enhance your expertise.")
             ELSE IF intent = "job_search" /\ Len(interests) > 0
             THEN LET joined == Join(Slice(interests, 2), ", ")
                  IN  IF joined.raised THEN joined
                      ELSE Returned(TipPrefix \o "Given your interests in "
                               \o joined.value
                               \o ", consider targeting companies and roles in these areas for better job satisfaction.")
             ELSE Returned("")

\* KnowledgeKey that falls back to the last knowledge category
KnowledgeKeyLastCategory(intent) ==
    LET by_name == IF (intent \o "_steps") \in TableKeys(career_knowledge)
                   THEN intent \o "_steps" ELSE intent \o "_tips"
    IN  IF by_name \notin TableKeys(career_knowledge)
        THEN career_knowledge[Len(career_knowledge)][1] ELSE by_name

\* the knowledge list _generate_response reads for an intent
KnowledgeKey(intent) ==
    LET by_name == IF (intent \o "_steps") \in TableKeys(career_knowledge)
                   THEN intent \o "_steps" ELSE intent \o "_tips"
    IN  IF by_name \notin TableKeys(career_knowledge)
        THEN career_knowledge[1][1] ELSE by_name

\* the knowledge points and the closing question
KnowledgeText(intent) ==
    LET knowledge_items == TableGet(career_knowledge, KnowledgeKey(intent))
        shown == Slice(knowledge_items, 5)
    IN  IF Len(knowledge_items) > 0
        THEN JoinWith([i \in DOMAIN shown |-> shown[i] \o "\n"], "")
             \o "\nWould you like me to elaborate on any of these points or help you with something specific related to "
             \o MapString(intent, "_", " ") \o "?"
        ELSE ""

\* _generate_response; `choice` is the index random.choice draws
_generate_response(context, intent, message, choice) ==
    IF intent = "general" THEN Returned(general_responses[choice])
    ELSE LET templates ==
                 IF intent \in TableKeys(response_templates)
                 THEN TableGet(response_templates, intent)
                 ELSE <<"I'd be happy to help with that!">>
             template == templates[choice]
             advice == IF DOMAIN context # {}
                       THEN _add_personalized_advice(context, intent)
                       ELSE Returned("")
         IN  IF advice.raised THEN advice
             ELSE Returned(template \o "\n\n" \o KnowledgeText(intent) \o advice.value)

\* the indices random.choice can draw for an intent
Choices(intent) ==
    IF intent = "general" THEN DOMAIN general_responses
    ELSE IF intent \in TableKeys(response_templates)
    THEN DOMAIN TableGet(response_templates, intent)
    ELSE { 1 }

\* process_message: the chatbot's fields after the call and the reply, or,
\* when _generate_response raised, the fields as the exception leaves them
process_message(self, message, context, choice) ==
    LET merged == IF DOMAIN context # {} THEN DictUpdate(self.user_context, context)
                  ELSE self.user_context
        history1 == Append(self.conversation_history,
                           [role |-> "user", message |-> message])
        intent == _analyze_intent(message)
        response == _generate_response(merged, intent, message, choice)
        history2 == Append(history1, [role |-> "assistant", message |-> response.value])
    IN  IF response.raised
        THEN [conversation_history |-> history1,
              user_context |-> merged,
              response |-> "",
              raised |-> TRUE]
        ELSE [conversation_history |-> history2,
              user_context |-> merged,
              response |-> response.value,
              raised |-> FALSE]

\* the loop of get_conversation_summary over the log
RECURSIVE IntentsDiscussed(_, _)
IntentsDiscussed(history, intents_discussed) ==
    IF Len(history) = 0 THEN intents_discussed
    ELSE LET entry == Head(history)
         IN  IF entry.role = "user"
             THEN LET intent == _analyze_intent(entry.message)
                  IN  IF intent \notin Range(intents_discussed)
                      THEN IntentsDiscussed(Tail(history), Append(intents_discussed, intent))
                      ELSE IntentsDiscussed(Tail(history), intents_discussed)
             ELSE IntentsDiscussed(Tail(history), intents_discussed)

\* get_conversation_summary with every user message's intent listed, repeats too
get_conversation_summary_repeating(self) ==
    LET users == SelectSeq(self.conversation_history, LAMBDA e : e.role = "user")
    IN  [total_messages |-> Len(self.conversation_history),
         intents_discussed |-> [i \in DOMAIN users |-> _analyze_intent(users[i].message)],
         user_context |-> self.user_context,
         conversation_length |-> Len(users)]

get_conversation_summary(self) ==
    [total_messages |-> Len(self.conversation_history),
     intents_discussed |-> IntentsDiscussed(self.conversation_history, <<>>),
     user_context |-> self.user_context,
     conversation_length |->
        Len(SelectSeq(self.conversation_history, LAMBDA msg : msg.role = "user"))]

\* reset_conversation that clears the log only
reset_conversation_log_only(self) ==
    [conversation_history |-> <<>>, user_context |-> self.user_context]

\* reset_conversation: the chatbot's fields after the call
reset_conversation(self) ==
    [conversation_history |-> <<>>, user_context |-> <<>>]

\* the chatbot instance
Chatbot == [conversation_history |-> conversation_history, user_context |-> user_context]

\* one call of process_message(message, context)
ProcessMessage ==
    /\ Len(conversation_history) < 2 * MaxCalls
    /\ \E message \in ChatMessages, context \in ChatContexts :
         \E choice \in Choices(_analyze_intent(message)) :
            LET after == process_message(Chatbot, message, context, choice)
            IN  /\ conversation_history' = after.conversation_history
                /\ user_context' = after.user_context
                /\ chat_result' = [op |-> "process_message", message |-> message,
                                   context |-> context, intent |-> "",
                                   response |-> after.response, summary |-> <<>>,
                                   cleared |-> <<>>, raised |-> after.raised]
    /\ UNCHANGED <<user_profile, match_result, gap_result, responses, personality_result>>

\* one call of get_conversation_summary()
GetConversationSummary ==
    /\ chat_result' = [op |-> "get_conversation_summary", message |-> "",
                       context |-> <<>>, intent |-> "", response |-> "",
                       summary |-> get_conversation_summary(Chatbot), cleared |-> <<>>,
                       raised |-> FALSE]
    /\ UNCHANGED <<conversation_history, user_context>>
    /\ UNCHANGED <<user_profile, match_result, gap_result, responses, personality_result>>

\* one call of reset_conversation()
ResetConversation ==
    /\ conversation_history' = reset_conversation(Chatbot).conversation_history
    /\ user_context' = reset_conversation(Chatbot).user_context
    /\ chat_result' = [op |-> "reset_conversation", message |-> "", context |-> <<>>,
                       intent |-> "", response |-> "", summary |-> <<>>,
                       cleared |-> [turns |-> Len(conversation_history),
                                    keys |-> DOMAIN user_context],
                       raised |-> FALSE]
    /\ UNCHANGED <<user_profile, match_result, gap_result, responses, personality_result>>

InitChat ==
    /\ user_profile = EmptyProfile
    /\ match_result = NoMatchResult
    /\ gap_result = NoGapResult
    /\ conversation_history = <<>>
    /\ user_context = <<>>
    /\ chat_result = NoChatResult
    /\ responses = <<>>
    /\ personality_result = NoPersonalityResult

NextChat == ProcessMessage \/ GetConversationSummary \/ ResetConversation

SpecChat == InitChat /\ [][NextChat]_vars

\* the instances a message is classified on: a new chatbot, and chatbots after
\* one call of process_message
NewChatbot == [conversation_history |-> <<>>, user_context |-> <<>>]

IntentInstances ==
    { NewChatbot }
    \cup { [conversation_history |-> after.conversation_history,
            user_context |-> after.user_context] :
           after \in { process_message(NewChatbot, "hello there", <<>>, 1),
                       process_message(NewChatbot, "How can I learn new skills?",
                           [experience_level |-> "entry",
                            skills |-> <<Str("Python"), Str("SQL"), Str("Git"),
                                         Str("Excel")>>], 2) } }

\* one call of _analyze_intent(message)
AnalyzeIntent ==
    /\ chat_result.op = "none"
    /\ \E message \in IntentMessages :
         chat_result' = [op |-> "_analyze_intent", message |-> message, context |-> <<>>,
                         intent |-> _analyze_intent(message), response |-> "",
                         summary |-> <<>>, cleared |-> <<>>, raised |-> FALSE]
    /\ UNCHANGED <<conversation_history, user_context>>
    /\ UNCHANGED <<user_profile, match_result, gap_result, responses, personality_result>>

InitIntent ==
    /\ user_profile = EmptyProfile
    /\ match_result = NoMatchResult
    /\ gap_result = NoGapResult
    /\ \E self \in IntentInstances :
         /\ conversation_history = self.conversation_history
         /\ user_context = self.user_context
    /\ chat_result = NoChatResult
    /\ responses = <<>>
    /\ personality_result = NoPersonalityResult

NextIntent == AnalyzeIntent

SpecIntent == InitIntent /\ [][NextIntent]_vars

(***************************************************************************)
(* _generate_response on every intent and on the contexts a chatbot may    *)
(* hold.                                                                   *)
(***************************************************************************)
\* the intents _analyze_intent can return
ResponseIntents == { intent_patterns[i][1] : i \in DOMAIN intent_patterns } \cup { "general" }

\* the contexts a chatbot may hold when it builds a reply
StoredContexts ==
    { <<>>,
      [experience_level |-> "entry"],
      [experience_level |-> "senior",
       skills |-> <<Str("Python"), Str("SQL"), Str("Git"), Str("Excel")>>,
       interests |-> <<Str("AI"), Str("Design"), Str("Finance")>>],
      [experience_level |-> "executive"],
      [experience_level |-> "", skills |-> <<>>, interests |-> <<>>],
      [skills |-> <<Str("Python")>>],
      [interests |-> <<Str("AI")>>],
      [skills |-> <<Num(1), Num(2)>>],
      [name |-> "Ann"] }

\* one call of _generate_response(intent, message) on a chatbot holding
\* user_context
GenerateResponse ==
    /\ chat_result.op = "none"
    /\ \E intent \in ResponseIntents, message \in ChatMessages :
         \E choice \in Choices(intent) :
            chat_result' =
                WithValue(_generate_response(user_context, intent, message, choice),
                    LAMBDA response :
                        [op |-> "_generate_response", message |-> message,
                         intent |-> intent, choice |-> choice,
                         response |-> IF response.raised THEN "" ELSE response.value,
                         raised |-> response.raised])
    /\ UNCHANGED <<conversation_history, user_context>>
    /\ UNCHANGED <<user_profile, match_result, gap_result, responses, personality_result>>

InitResponse ==
    /\ user_profile = EmptyProfile
    /\ match_result = NoMatchResult
    /\ gap_result = NoGapResult
    /\ conversation_history = <<>>
    /\ user_context \in StoredContexts
    /\ chat_result = NoChatResult
    /\ responses = <<>>
    /\ personality_result = NoPersonalityResult

NextResponse == GenerateResponse

SpecResponse == InitResponse /\ [][NextResponse]_vars

\* whether string s begins with `prefix`
StartsWith(s, prefix) ==
    WithValue(prefix, LAMBDA start :
        Len(s) >= Len(start) /\ SubSeq(s, 1, Len(start)) = start)

\* the knowledge list C14 names for an intent
C14_Key(intent) ==
    IF (intent \o "_steps") \in TableKeys(career_knowledge) THEN intent \o "_steps"
    ELSE IF (intent \o "_tips") \in TableKeys(career_knowledge) THEN intent \o "_tips"
    ELSE "career_change_steps"

\* the template drawn, the first five items of a knowledge list, one per
\* line, and the closing question for an intent
C14_Text(template, items, intent) ==
    template \o "\n\n"
    \o items[1] \o "\n" \o items[2] \o "\n" \o items[3] \o "\n" \o items[4] \o "\n"
    \o items[5] \o "\n"
    \o "\nWould you like me to elaborate on any of these points or help you with something specific related to "
    \o MapString(intent, "_", " ") \o "?"

\* C14: for a non-general intent the reply of _generate_response starts with
\* the template, the first 5 items of the list '<intent>_steps' if there is
\* one, else of '<intent>_tips' if there is one, else of career_change_steps,
\* and the closing question naming the intent with blanks for underscores;
\* the intents whose list has another suffix (skill_development, job_search,
\* interview_prep, networking) are answered from career_change_steps.
C14_KnowledgeByExactKey ==
    (chat_result.op = "_generate_response" /\ chat_result.intent # "general"
        /\ ~chat_result.raised) =>
        /\ StartsWith(chat_result.response,
                      C14_Text(TableGet(response_templates,
                                        chat_result.intent)[chat_result.choice],
                               TableGet(career_knowledge, C14_Key(chat_result.intent)),
                               chat_result.intent))
        /\ chat_result.intent \in { "skill_development", "job_search", "interview_prep",
                                    "networking" }
              => /\ C14_Key(chat_result.intent) = "career_change_steps"
                 /\ ~Contains(chat_result.response,
                        TableGet(career_knowledge, "skill_development_strategies")[1])
                 /\ ~Contains(chat_result.response,
                        TableGet(career_knowledge, "job_search_best_practices")[1])
                 /\ ~Contains(chat_result.response,
                        TableGet(career_knowledge, "interview_preparation")[1])
                 /\ ~Contains(chat_result.response,
                        TableGet(career_knowledge, "networking_strategies")[1])

\* C14 witness: a networking reply built from the career-change steps, and
\* without the sixth of them.
C14_Witness ==
    /\ chat_result.op = "_generate_response"
    /\ chat_result.intent = "networking"
    /\ Contains(chat_result.response, TableGet(career_knowledge, "career_change_steps")[5])
    /\ ~Contains(chat_result.response, TableGet(career_knowledge, "career_change_steps")[6])
    /\ Contains(chat_result.response, "related to networking?")

\* what a non-general reply holds after the template, the knowledge points
\* and the closing question
ResponseTail(result) ==
    SubSeq(result.response,
           Len(TableGet(response_templates, result.intent)[result.choice] \o "\n\n"
               \o KnowledgeText(result.intent)) + 1,
           Len(result.response))

\* the cases in which C15 promises a personalization sentence
C15_Applies(context, intent) ==
    /\ DOMAIN context # {}
    /\ \/ intent = "career_change" /\ DictGet(context, "experience_level", "") # ""
       \/ intent = "skill_development" /\ Len(DictGet(context, "skills", <<>>)) > 0
       \/ intent = "job_search" /\ Len(DictGet(context, "interests", <<>>)) > 0

\* C15: a reply built on a non-empty context ends with exactly one
\* personalization sentence, the tip prefix followed by a non-empty advice,
\* when the intent is career_change and an experience level is set, or
\* skill_development and there are skills, or job_search and there are
\* interests; in every other case nothing follows the reply, not even the tip
\* prefix.
C15_OneSentenceOrNothing ==
    (chat_result.op = "_generate_response" /\ ~chat_result.raised) =>
        IF chat_result.intent = "general"
        THEN ~Contains(chat_result.response, TipPrefix)
        ELSE IF C15_Applies(user_context, chat_result.intent)
        THEN /\ Len(ResponseTail(chat_result)) > Len(TipPrefix)
             /\ SubSeq(ResponseTail(chat_result), 1, Len(TipPrefix)) = TipPrefix
        ELSE ResponseTail(chat_result) = ""

\* C15 witness: a career_change reply for the experience level "executive"
\* that ends with the tip prefix and no advice.
C15_Witness ==
    /\ chat_result.op = "_generate_response"
    /\ ~chat_result.raised
    /\ chat_result.intent = "career_change"
    /\ user_context = [experience_level |-> "executive"]
    /\ ResponseTail(chat_result) = TipPrefix

(***************************************************************************)
(* Two process_message calls on the one shared chatbot, statement by       *)
(* statement.  chat_result.calls[i] is call i: its arguments, the          *)
(* statement it runs next, the reply it built, the place of its user turn  *)
(* in the log, and whether a statement of the other call ran between its   *)
(* first and its last statement.                                           *)
(***************************************************************************)
Callers == { 1, 2 }

\* a call that has run its first statement and not yet its last
InProgress(call) == call.pc \in { "append_user", "generate", "append_assistant" }

\* chat_result after caller i ran a statement that leaves its call as `call`
AfterStatement(i, call) ==
    [chat_result EXCEPT !.calls =
        [j \in Callers |->
            [(IF j = i THEN call ELSE chat_result.calls[j]) EXCEPT !.overlapped =
                @ \/ \E other \in Callers \ { i } : InProgress(chat_result.calls[other])]]]

\* if user_context: self.user_context.update(user_context)
MergeContext(i) ==
    /\ chat_result.calls[i].pc = "merge"
    /\ user_context' = IF DOMAIN chat_result.calls[i].context # {}
                       THEN DictUpdate(user_context, chat_result.calls[i].context)
                       ELSE user_context
    /\ chat_result' = AfterStatement(i, [chat_result.calls[i] EXCEPT !.pc = "append_user"])
    /\ UNCHANGED conversation_history
    /\ UNCHANGED <<user_profile, match_result, gap_result, responses, personality_result>>

\* self.conversation_history.append({"role": "user", "message": message})
AppendUserTurn(i) ==
    /\ chat_result.calls[i].pc = "append_user"
    /\ conversation_history' =
          Append(conversation_history,
                 [role |-> "user", message |-> chat_result.calls[i].message])
    /\ chat_result' =
          AfterStatement(i, [chat_result.calls[i] EXCEPT
                                !.pc = "generate",
                                !.user_at = Len(conversation_history) + 1])
    /\ UNCHANGED user_context
    /\ UNCHANGED <<user_profile, match_result, gap_result, responses, personality_result>>

\* intent = self._analyze_intent(message);
\* response = self._generate_response(intent, message), which may raise
GenerateReply(i) ==
    /\ chat_result.calls[i].pc = "generate"
    /\ \E choice \in Choices(_analyze_intent(chat_result.calls[i].message)) :
          chat_result' =
             WithValue(_generate_response(user_context,
                                          _analyze_intent(chat_result.calls[i].message),
                                          chat_result.calls[i].message, choice),
                 LAMBDA response :
                    AfterStatement(i,
                        IF response.raised
                        THEN [chat_result.calls[i] EXCEPT !.pc = "raised"]
                        ELSE [chat_result.calls[i] EXCEPT !.pc = "append_assistant",
                                                          !.response = response.value]))
    /\ UNCHANGED <<conversation_history, user_context>>
    /\ UNCHANGED <<user_profile, match_result, gap_result, responses, personality_result>>

\* self.conversation_history.append({"role": "assistant", "message": response})
AppendAssistantTurn(i) ==
    /\ chat_result.calls[i].pc = "append_assistant"
    /\ conversation_history' =
          Append(conversation_history,
                 [role |-> "assistant", message |-> chat_result.calls[i].response])
    /\ chat_result' = AfterStatement(i, [chat_result.calls[i] EXCEPT !.pc = "done"])
    /\ UNCHANGED user_context
    /\ UNCHANGED <<user_profile, match_result, gap_result, responses, personality_result>>

\* the two calls as they arrive at a new chatbot
InitConcurrent ==
    /\ user_profile = EmptyProfile
    /\ match_result = NoMatchResult
    /\ gap_result = NoGapResult
    /\ conversation_history = <<>>
    /\ user_context = <<>>
    /\ \E arguments \in [Callers -> [message : ChatMessages, context : ChatContexts]] :
          chat_result =
             [op |-> "process_message",
              calls |-> [i \in Callers |->
                            [pc |-> "merge", message |-> arguments[i].message,
                             context |-> arguments[i].context, response |-> "",
                             user_at |-> 0, overlapped |-> FALSE]]]
    /\ responses = <<>>
    /\ personality_result = NoPersonalityResult

NextConcurrent ==
    \E i \in Callers :
        \/ MergeContext(i)
        \/ AppendUserTurn(i)
        \/ GenerateReply(i)
        \/ AppendAssistantTurn(i)

SpecConcurrent == InitConcurrent /\ [][NextConcurrent]_vars

\* C17: when the two calls are serialized (no statement of one runs between
\* the first and the last statement of the other), the user turn of every
\* finished call is immediately followed in the log by the reply generated
\* for it.
C17_SerializedTurnsPaired ==
    \A i \in Callers :
        (chat_result.calls[i].pc \in { "done", "raised" }
            /\ ~chat_result.calls[i].overlapped) =>
            /\ Len(conversation_history) > chat_result.calls[i].user_at
            /\ conversation_history[chat_result.calls[i].user_at + 1] =
                  [role |-> "assistant", message |-> chat_result.calls[i].response]

\* C17 failing state: the calls ran one after the other, the first raised
\* while it built its reply, and the log holds its user turn followed by the
\* user turn of the second call.
C17_Witness ==
    /\ ~chat_result.calls[1].overlapped
    /\ chat_result.calls[1].pc = "raised"
    /\ chat_result.calls[2].pc = "done"
    /\ Len(conversation_history) = 3
    /\ conversation_history[1] =
          [role |-> "user", message |-> chat_result.calls[1].message]
    /\ conversation_history[2] =
          [role |-> "user", message |-> chat_result.calls[2].message]

\* the race C17 describes: both calls returned, and the log holds the two
\* user turns in a row
C17_TwoUserTurnsInARow ==
    /\ \A i \in Callers : chat_result.calls[i].pc = "done"
    /\ chat_result.calls[1].overlapped
    /\ conversation_history[1].role = "user"
    /\ conversation_history[2].role = "user"

\* the race C17 describes: call 1 supplied no context and logged its user
\* turn first, and its reply names the skills call 2 merged
C17_ReplyFromOtherCallsContext ==
    /\ chat_result.calls[1].pc = "done"
    /\ chat_result.calls[1].overlapped
    /\ chat_result.calls[1].user_at = 1
    /\ DOMAIN chat_result.calls[1].context = {}
    /\ DOMAIN chat_result.calls[2].context # {}
    /\ Contains(chat_result.calls[1].response, "Based on your current skills in Python")

\* the calls that return, when serialized, have their turns paired
C17_SerializedReturnedTurnsPaired ==
    \A i \in Callers :
        (chat_result.calls[i].pc = "done" /\ ~chat_result.calls[i].overlapped) =>
            conversation_history[chat_result.calls[i].user_at + 1] =
                [role |-> "assistant", message |-> chat_result.calls[i].response]

(***************************************************************************)
(* Claims about the chatbot.                                               *)
(***************************************************************************)
\* the precedence order C6 states
C6_Precedence ==
    << "career_change", "salary_negotiation", "skill_development", "job_search",
       "interview_prep", "networking", "work_life_balance" >>

\* C6: _analyze_intent returns the first intent, in the order career_change,
\* salary_negotiation, skill_development, job_search, interview_prep,
\* networking, work_life_balance, one of whose patterns is a substring of the
\* lower-cased text, and 'general' exactly when no pattern of any intent
\* occurs; the result is that function of the text on every instance, whatever
\* its log and context.
C6_IntentByPrecedence ==
    chat_result.op = "_analyze_intent" =>
        LET text == lower(chat_result.message)
            Occurs(name) ==
                /\ name \in TableKeys(intent_patterns)
                /\ \E pattern \in Range(TableGet(intent_patterns, name)) :
                      Contains(text, pattern)
            matching == { k \in DOMAIN C6_Precedence : Occurs(C6_Precedence[k]) }
        IN  /\ TableKeys(intent_patterns) = Range(C6_Precedence)
            /\ (chat_result.intent = "general") <=> (matching = {})
            /\ matching # {} =>
                  \E k \in matching :
                     /\ chat_result.intent = C6_Precedence[k]
                     /\ \A j \in matching : k <= j

\* C6 witness: on an instance with a log and a context, a text in upper case
\* that holds a pattern of skill_development and one of salary_negotiation is
\* classified as salary_negotiation.
C6_Witness ==
    /\ chat_result.op = "_analyze_intent"
    /\ chat_result.message = "learn SALARY"
    /\ chat_result.intent = "salary_negotiation"
    /\ Len(conversation_history) > 0
    /\ DOMAIN user_context # {}

\* whether a reply carries a personalization
Personalized(response) == Contains(response, "Personalized tip")

\* C8: after reset_conversation the log and the stored context are empty; a
\* get_conversation_summary right after it reports total_messages = 0,
\* conversation_length = 0, no intents and an empty context; a process_message
\* right after it that supplies no context returns a reply without
\* personalization.
C8_ResetClears ==
    /\ [](chat_result.op = "reset_conversation" =>
             conversation_history = <<>> /\ DOMAIN user_context = {})
    /\ [][(chat_result.op = "reset_conversation"
              /\ chat_result'.op = "get_conversation_summary") =>
             /\ chat_result'.summary.total_messages = 0
             /\ chat_result'.summary.conversation_length = 0
             /\ chat_result'.summary.intents_discussed = <<>>
             /\ DOMAIN chat_result'.summary.user_context = {}]_vars
    /\ [][(chat_result.op = "reset_conversation"
              /\ chat_result'.op = "process_message"
              /\ DOMAIN chat_result'.context = {}) =>
             ~chat_result'.raised /\ ~Personalized(chat_result'.response)]_vars

\* C8 witness: reset_conversation was called on a chatbot that held two
\* exchanges and a stored context.
C8_Witness ==
    /\ chat_result.op = "reset_conversation"
    /\ chat_result.cleared.turns = 4
    /\ chat_result.cleared.keys = {"experience_level", "skills"}
    /\ conversation_history = <<>>
    /\ DOMAIN user_context = {}

\* C9: a process_message call appends exactly two entries to the log, the
\* user turn with the message and then the assistant turn with the returned
\* reply; no call but reset_conversation changes an earlier entry or shortens
\* the log; so the log always alternates user, assistant and has even length.
C9_AppendOnlyLog ==
    /\ [][chat_result'.op = "process_message" =>
             conversation_history' =
                conversation_history
                    \o << [role |-> "user", message |-> chat_result'.message],
                          [role |-> "assistant", message |-> chat_result'.response] >>]_vars
    /\ [][chat_result'.op # "reset_conversation" =>
             /\ Len(conversation_history') >= Len(conversation_history)
             /\ SubSeq(conversation_history', 1, Len(conversation_history))
                    = conversation_history]_vars
    /\ [](/\ Len(conversation_history) % 2 = 0
          /\ \A i \in DOMAIN conversation_history :
                conversation_history[i].role =
                    IF i % 2 = 1 THEN "user" ELSE "assistant")

\* C9 failing state: a skill_development message arrived with a context whose
\* skills are numbers; the call logged the user turn, raised TypeError while
\* joining the skills and logged no assistant turn.
C9_Witness ==
    /\ chat_result.op = "process_message"
    /\ chat_result.raised
    /\ chat_result.message = "How can I learn new skills?"
    /\ chat_result.context = [skills |-> <<Num(1), Num(2)>>]
    /\ conversation_history = << [role |-> "user", message |-> chat_result.message] >>

\* C16: a process_message call leaves as stored context the context stored
\* before it, overridden key by key with the context the call supplies: keys
\* not supplied keep their value, no or an empty supplied context changes
\* nothing, and only a reset removes a key; the reply is the one built from
\* the merged context, keys of earlier calls included.
C16_ContextMergedKeyByKey ==
    /\ [][chat_result'.op = "process_message" =>
             /\ DOMAIN user_context' = DOMAIN user_context \cup DOMAIN chat_result'.context
             /\ \A k \in DOMAIN user_context' :
                   user_context'[k] = IF k \in DOMAIN chat_result'.context
                                      THEN chat_result'.context[k]
                                      ELSE user_context[k]
             /\ DOMAIN chat_result'.context = {} => user_context' = user_context
             /\ ~chat_result'.raised =>
                   \E choice \in Choices(_analyze_intent(chat_result'.message)) :
                      chat_result'.response =
                         _generate_response(user_context',
                                            _analyze_intent(chat_result'.message),
                                            chat_result'.message, choice).value]_vars
    /\ [][chat_result'.op # "reset_conversation" =>
             DOMAIN user_context \subseteq DOMAIN user_context']_vars

\* C16 witness: the first call supplied an experience level and skills, and
\* was answered with a tip on them; the second call supplies no context and
\* is answered with a tip naming the skills of the first call.
C16_Witness ==
    /\ chat_result.op = "process_message"
    /\ DOMAIN chat_result.context = {}
    /\ Len(conversation_history) = 4
    /\ DOMAIN user_context = { "experience_level", "skills" }
    /\ Contains(conversation_history[2].message, "As someone early in your career")
    /\ Contains(chat_result.response, "Based on your current skills in Python, SQL, Git")

\* the user turns of the log
UserTurns == SelectSeq(conversation_history, LAMBDA e : e.role = "user")

\* C10: get_conversation_summary reports total_messages = the length of the
\* log, conversation_length = the number of user turns, and intents_discussed =
\* the intents of the stored user messages in order of first occurrence, none
\* repeated, 'general' among them when a message matched nothing; the call
\* changes neither the log nor the stored context.
C10_SummaryCounts ==
    /\ [](chat_result.op = "get_conversation_summary" =>
            LET summary == chat_result.summary
                intents == summary.intents_discussed
                First(intent) ==
                    CHOOSE i \in DOMAIN UserTurns :
                        /\ _analyze_intent(UserTurns[i].message) = intent
                        /\ \A k \in 1..(i - 1) :
                              _analyze_intent(UserTurns[k].message) # intent
            IN  /\ summary.total_messages = Len(conversation_history)
                /\ summary.conversation_length = Len(UserTurns)
                /\ summary.user_context = user_context
                /\ Range(intents) =
                      { _analyze_intent(UserTurns[i].message) : i \in DOMAIN UserTurns }
                /\ \A i, k \in DOMAIN intents : intents[i] = intents[k] => i = k
                /\ \A i, k \in DOMAIN intents :
                      i < k => First(intents[i]) < First(intents[k]))
    /\ [][chat_result'.op = "get_conversation_summary" =>
             UNCHANGED <<conversation_history, user_context>>]_vars

\* C10 witness: a summary of a log of five entries with three user turns, the
\* second and the third of the same intent 'general': two intents, in the
\* order of their first messages.
C10_Witness ==
    /\ chat_result.op = "get_conversation_summary"
    /\ chat_result.summary.total_messages = 5
    /\ chat_result.summary.conversation_length = 3
    /\ chat_result.summary.intents_discussed = <<"skill_development", "general">>
    /\ _analyze_intent(conversation_history[4].message) = "general"
    /\ conversation_history[4].role = "user"

(***************************************************************************)
(* The personality classifier (personality_analyzer.py).                   *)
(***************************************************************************)
\* the keys of the scores dict, in the order the dict literal inserts them
ScoreKeys == << "RED", "YELLOW", "GREEN", "BLUE" >>

CAREER_MAP ==
    [ RED    |-> << "Management", "Entrepreneurship", "Sales Leadership",
                    "Project Management" >>,
      YELLOW |-> << "Marketing", "Public Relations", "Training", "Sales", "HR" >>,
      GREEN  |-> << "Customer Service", "Healthcare", "Social Work", "Teaching" >>,
      BLUE   |-> << "Data Analysis", "Engineering", "Research", "Quality Assurance" >> ]

get_strengths(color) ==
    LET strengths_map ==
            [ RED    |-> << "Leadership", "Decision-making", "Results-oriented" >>,
              YELLOW |-> << "Communication", "Creativity", "Optimism" >>,
              GREEN  |-> << "Teamwork", "Patience", "Reliability" >>,
              BLUE   |-> << "Analysis", "Precision", "Planning" >> ]
    IN  IF color \in DOMAIN strengths_map THEN strengths_map[color] ELSE <<>>

get_weaknesses(color) ==
    LET weaknesses_map ==
            [ RED    |-> << "Impatience", "Dominating" >>,
              YELLOW |-> << "Disorganized", "Unrealistic" >>,
              GREEN  |-> << "Avoids conflict", "Resistant to change" >>,
              BLUE   |-> << "Overthinking", "Critical" >> ]
    IN  IF color \in DOMAIN weaknesses_map THEN weaknesses_map[color] ELSE <<>>

\* the answers a response set is drawn from: the four letters in both cases,
\* another letter, the empty answer and an answer of two letters
Answers == { "a", "A", "b", "B", "c", "C", "d", "D", "e", "", "ab" }

Questions == 0 .. (MaxQuestions - 1)

\* every Dict[int, str] over the questions
ResponseSets == UNION { [asked -> Answers] : asked \in SUBSET Questions }

\* responses.values(), here in ascending order of the key
RECURSIVE ValuesFrom(_, _)
ValuesFrom(mapping, q) ==
    IF q > MaxQuestions - 1 THEN <<>>
    ELSE IF q \in DOMAIN mapping THEN <<mapping[q]>> \o ValuesFrom(mapping, q + 1)
    ELSE ValuesFrom(mapping, q + 1)

Values(mapping) == ValuesFrom(mapping, 0)

\* one pass of the loop body: the if / elif chain on answer.upper()
ScoreAnswer(scores, answer) ==
    IF upper(answer) = "A" THEN [scores EXCEPT !.RED = @ + 1]
    ELSE IF upper(answer) = "B" THEN [scores EXCEPT !.YELLOW = @ + 1]
    ELSE IF upper(answer) = "C" THEN [scores EXCEPT !.GREEN = @ + 1]
    ELSE IF upper(answer) = "D" THEN [scores EXCEPT !.BLUE = @ + 1]
    ELSE scores

RECURSIVE ScoreAnswers(_, _)
ScoreAnswers(scores, answers) ==
    IF answers = <<>> THEN scores
    ELSE ScoreAnswers(ScoreAnswer(scores, Head(answers)), Tail(answers))

\* max(scores, key=scores.get) with a later key replacing the best on a tie
RECURSIVE MaxKeyLastWins(_, _, _)
MaxKeyLastWins(scores, keys, best) ==
    IF keys = <<>> THEN best
    ELSE MaxKeyLastWins(scores, Tail(keys),
                        IF scores[Head(keys)] >= scores[best] THEN Head(keys) ELSE best)

\* max(scores, key=scores.get): the keys in dict order, a later key replaces
\* the best so far only when its score is strictly greater
RECURSIVE MaxKey(_, _, _)
MaxKey(scores, keys, best) ==
    IF keys = <<>> THEN best
    ELSE MaxKey(scores, Tail(keys),
                IF scores[Head(keys)] > scores[best] THEN Head(keys) ELSE best)

analyze_personality(mapping) ==
    LET scores == ScoreAnswers([RED |-> 0, YELLOW |-> 0, GREEN |-> 0, BLUE |-> 0],
                               Values(mapping))
        dominant == MaxKey(scores, Tail(ScoreKeys), Head(ScoreKeys))
    IN  [ dominant_color |-> dominant,
          scores |-> scores,
          career_suggestions |-> CAREER_MAP[dominant],
          strengths |-> get_strengths(dominant),
          weaknesses |-> get_weaknesses(dominant) ]

\* POST /analyze
AnalyzePersonality ==
    /\ personality_result.op = "none"
    /\ \E mapping \in ResponseSets :
         /\ responses' = mapping
         /\ personality_result' =
               LET result == analyze_personality(mapping)
               IN  [op |-> "analyze_personality",
                    dominant_color |-> result.dominant_color,
                    scores |-> result.scores,
                    career_suggestions |-> result.career_suggestions,
                    strengths |-> result.strengths,
                    weaknesses |-> result.weaknesses]
    /\ UNCHANGED <<user_profile, match_result, gap_result, conversation_history,
                   user_context, chat_result>>

InitPersonality ==
    /\ user_profile = EmptyProfile
    /\ match_result = NoMatchResult
    /\ gap_result = NoGapResult
    /\ conversation_history = <<>>
    /\ user_context = <<>>
    /\ chat_result = NoChatResult
    /\ responses = <<>>
    /\ personality_result = NoPersonalityResult

NextPersonality == AnalyzePersonality

SpecPersonality == InitPersonality /\ [][NextPersonality]_vars

\* the letters C7 maps to each category, in both cases
C7_Letters ==
    [ RED |-> {"a", "A"}, YELLOW |-> {"b", "B"}, GREEN |-> {"c", "C"}, BLUE |-> {"d", "D"} ]

\* C7: analyze_personality counts the answers equal, whatever their case, to
\* A, B, C, D into RED, YELLOW, GREEN, BLUE and ignores every other answer;
\* the dominant category has the maximum count and every category before it
\* in the order RED, YELLOW, GREEN, BLUE has a strictly smaller count; with no
\* valid answer the result is RED with all counts 0.
C7_CountsAndDominant ==
    personality_result.op = "analyze_personality" =>
        LET scores == personality_result.scores
            dominant == personality_result.dominant_color
            Count(color) ==
                Cardinality({ q \in DOMAIN responses : responses[q] \in C7_Letters[color] })
            Place(color) == CHOOSE k \in DOMAIN ScoreKeys : ScoreKeys[k] = color
        IN  /\ DOMAIN scores = Range(ScoreKeys)
            /\ \A color \in Range(ScoreKeys) : scores[color] = Count(color)
            /\ dominant \in Range(ScoreKeys)
            /\ \A color \in Range(ScoreKeys) :
                  /\ scores[color] <= scores[dominant]
                  /\ Place(color) < Place(dominant) => scores[color] < scores[dominant]
            /\ (\A color \in Range(ScoreKeys) : Count(color) = 0) =>
                  /\ dominant = "RED"
                  /\ \A color \in Range(ScoreKeys) : scores[color] = 0

\* C7 witness: one answer c, one answer D and one ignored answer: GREEN and
\* BLUE tie for the maximum and GREEN is the dominant category.
C7_Witness ==
    /\ personality_result.op = "analyze_personality"
    /\ DOMAIN responses = {0, 1, 2}
    /\ responses[0] = "e" /\ responses[1] = "D" /\ responses[2] = "c"
    /\ personality_result.scores = [RED |-> 0, YELLOW |-> 0, GREEN |-> 1, BLUE |-> 1]
    /\ personality_result.dominant_color = "GREEN"

====
